---- MODULE Spec2Model ----
(***************************************************************************)
(* State-machine model of the To-Do backend (Express + Mongoose + JWT):    *)
(* the middleware chains of routes/taskRoutes.ts and routes/authRoutes.ts, *)
(* the auth middleware (authenticateToken, optionalAuth, userRateLimit),   *)
(* the token issue/verify pair, and the user registration handler.         *)
(*                                                                         *)
(* Time is the reading of Date.now() in milliseconds, counted from the     *)
(* start of the process. A request is a record that walks through its      *)
(* route's chain one middleware at a time; an async handler takes one step *)
(* per await.                                                              *)
(***************************************************************************)
EXTENDS Integers, Sequences, FiniteSets, TLC

VARIABLES
    now,          \* Date.now(), ms
    ticks,        \* number of clock advances so far (bounds the run)
    env,          \* process.env: JWT_SECRET, JWT_EXPIRES_IN
    users,        \* the users collection
    tasks,        \* the tasks collection
    nextId,       \* next ObjectId the driver hands out
    issued,       \* tokens returned by generateToken so far
    reqs,         \* per client: the request in flight (or Idle)
    prev,         \* the last auth rejection answered before the current one
    userRequests, \* the Map inside userRateLimit()
    admitted      \* per user id: requests handed to a handler in the current window

vars == <<now, ticks, env, users, tasks, nextId, issued, reqs, prev,
          userRequests, admitted>>

-----------------------------------------------------------------------------
(* Bounds of the model *)

MaxTicks == 2
MaxOtherCalls == 2
MaxAuthTicks == 2
MaxTokens == 1
MaxTasks == 2
MaxStored == 1
MaxListed == 3
MaxMarked == 1
MaxStatTicks == 1

-----------------------------------------------------------------------------
(* Program constants *)

maxRequestsPerMinute == 100
windowMs == 60000

-----------------------------------------------------------------------------
(* Values shared by every part *)

Clients == {1, 2}
UserIds == {"u1", "u2"}

NoUser == [kind |-> "unset"]
Idle == [kind |-> "idle"]
NoRecord == [kind |-> "none"]

(* A JSON response: IApiErrorResponse {error, message, details?} or         *)
(* IApiResponse {success, message?, data?}; `error` is "" on success.       *)
(* Accents of the source's texts are dropped.                               *)
NoData == [kind |-> "nodata"]

Response(status, error, message) ==
    [status |-> status, error |-> error, message |-> message,
     details |-> <<>>, data |-> NoData]

ErrorDetails(status, error, message, details) ==
    [status |-> status, error |-> error, message |-> message,
     details |-> details, data |-> NoData]

Success(status, message, data) ==
    [status |-> status, error |-> "", message |-> message,
     details |-> <<>>, data |-> data]

NoResponse == Response(0, "", "")

(* req.headers.authorization: absent, or a string. A string is held as the *)
(* characters in front of the credential (`pre`) and the credential.       *)
NoHeader == [kind |-> "absent"]
NoCred == [kind |-> "nocred"]
NoBody == [kind |-> "nobody"]

(* IJWTPayload as jwt.verify returns it *)
NoTime == 0 - 1
Claims(userId, username, iat, exp, nbf) ==
    [kind |-> "claims", userId |-> userId, username |-> username,
     iat |-> iat, exp |-> exp, nbf |-> nbf]

Username(u) == IF u = "u1" THEN "ann" ELSE "bob"

(* A request record. `pc` is the position in the route's chain of the      *)
(* middleware that runs next (or that answered); `res` is every response    *)
(* sent for the request, `nexts` the number of next() calls made so far.    *)
(* `sent` keeps the body and the query as the client sent them.             *)
NoId == [kind |-> "noid"]
NoQuery == [kind |-> "noquery"]
NoDoc == [kind |-> "nodoc"]

NewReq(route, header, user, body) ==
    [kind |-> "req", route |-> route, pc |-> 1, state |-> "running",
     header |-> header, user |-> user, body |-> body, id |-> NoId,
     query |-> NoQuery, hpc |-> "start", doc |-> NoDoc,
     sent |-> [body |-> body, query |-> NoQuery],
     res |-> <<>>, nexts |-> 0, jwtError |-> "none"]

IsReq(r) == r.kind = "req"

OnRoute(r, route) == IF IsReq(r) THEN r.route = route ELSE FALSE

-----------------------------------------------------------------------------
(* Route table *)

(* routes/taskRoutes.ts, routes/authRoutes.ts: the chain mounted on each    *)
(* route. The "direct:" entries stand for a direct call of an exported      *)
(* middleware that no route mounts.                                         *)
Chain(route) ==
    CASE route = "GET /api/tasks" ->
            <<"authenticateToken", "validateTaskQueryFilters", "getAllTasks">>
      [] route = "GET /api/tasks/stats" -> <<"authenticateToken", "getTaskStats">>
      [] route = "GET /api/tasks/:id" ->
            <<"authenticateToken", "validateMongoId", "getTaskById">>
      [] route = "POST /api/tasks" ->
            <<"authenticateToken", "validateCreateTask", "createTask">>
      [] route = "PUT /api/tasks/:id" ->
            <<"authenticateToken", "validateMongoId", "validateUpdateTask", "updateTask">>
      [] route = "DELETE /api/tasks/:id" ->
            <<"authenticateToken", "validateMongoId", "deleteTask">>
      [] route = "POST /api/auth/register" -> <<"validateCreateUser", "registerUser">>
      [] route = "POST /api/auth/login" -> <<"validateLoginUser", "loginUser">>
      [] route = "GET /api/auth/profile" -> <<"authenticateToken", "getUserProfile">>
      [] route = "GET /api/auth/verify" -> <<"authenticateToken", "verifyToken">>
      [] route = "direct:userRateLimit" -> <<"userRateLimit">>
      [] route = "direct:optionalAuth" -> <<"optionalAuth">>
      [] OTHER -> <<>>

ProtectedRoutes ==
    {"GET /api/tasks", "GET /api/tasks/stats", "GET /api/tasks/:id",
     "POST /api/tasks", "PUT /api/tasks/:id", "DELETE /api/tasks/:id",
     "GET /api/auth/profile", "GET /api/auth/verify"}

(* res.status(..).json(..); return -- the chain stops here *)
Send(r, resp) == [r EXCEPT !.res = Append(@, resp), !.state = "responded"]

(* next() -- Express moves on to the following middleware of the chain; a   *)
(* next() out of the last one leaves the chain.                             *)
CallNext(r) ==
    [r EXCEPT !.nexts = @ + 1,
              !.pc = @ + 1,
              !.state = IF r.pc >= Len(Chain(r.route)) THEN "passed" ELSE "running"]

Running(c, name) ==
    IF IsReq(reqs[c])
    THEN /\ reqs[c].state = "running"
         /\ reqs[c].pc <= Len(Chain(reqs[c].route))
         /\ Chain(reqs[c].route)[reqs[c].pc] = name
    ELSE FALSE

Free(c) == IF IsReq(reqs[c]) THEN reqs[c].state # "running" ELSE TRUE

-----------------------------------------------------------------------------
(* userRateLimit *)

RateRecord(count, resetTime) ==
    [kind |-> "rec", count |-> count, resetTime |-> resetTime]

WindowExpiredLate(rec, t) == t > rec.resetTime + windowMs
(* now > userRecord.resetTime *)
WindowExpired(rec, t) == t > rec.resetTime

OverLimitOffByOne(rec) == rec.count > maxRequestsPerMinute
(* userRecord.count >= maxRequestsPerMinute *)
OverLimit(rec) == rec.count >= maxRequestsPerMinute

TooManyRequests ==
    Response(429, "Limite de tasa excedido",
             "Demasiadas peticiones. Intenta de nuevo en un minuto")

(* The middleware returned by userRateLimit(): the request after the call   *)
(* and the Map after the call.                                              *)
userRateLimit(r, map, t) ==
    IF r.user = NoUser
    THEN [req |-> CallNext(r), map |-> map]
    ELSE LET userId == r.user.userId
             userRecord == map[userId]
         IN  IF userRecord = NoRecord \/ WindowExpired(userRecord, t)
             THEN [req |-> CallNext(r),
                   map |-> [map EXCEPT ![userId] = RateRecord(1, t + windowMs)]]
             ELSE IF OverLimit(userRecord)
             THEN [req |-> Send(r, TooManyRequests), map |-> map]
             ELSE [req |-> CallNext(r),
                   map |-> [map EXCEPT ![userId].count = @ + 1]]

(* Ground truth kept beside the Map: per user id, the start of the 60 s    *)
(* window its admitted requests are counted in and how many were admitted  *)
(* in it.                                                                  *)
NoWindow == [kind |-> "nowindow"]

Admit(adm, u, t) ==
    IF adm[u] = NoWindow \/ t > adm[u].since + windowMs
    THEN [adm EXCEPT ![u] = [kind |-> "window", since |-> t, n |-> 1]]
    ELSE [adm EXCEPT ![u].n = @ + 1]

(* What the caller of the limiter carries in req.user *)
LimiterUsers == {NoUser} \cup {Claims(u, Username(u), 0, 0, NoTime) : u \in UserIds}

(* The second identity makes only a few calls per window *)
CallAllowed(user) ==
    IF user = NoUser \/ userRequests[user.userId] = NoRecord
    THEN TRUE
    ELSE user.userId = "u1"
         \/ now > userRequests[user.userId].resetTime
         \/ userRequests[user.userId].count < MaxOtherCalls

(* The last rejection answered before the request now held by client c *)
PrevAfter(c) ==
    IF IsReq(reqs[c]) /\ reqs[c].state = "responded" /\ reqs[c].res[1].status \in {401, 429}
    THEN [res |-> reqs[c].res[1], why |-> reqs[c].jwtError]
    ELSE prev

(* One call of the middleware userRateLimit() returned, with a fresh request *)
CallUserRateLimit(c, user) ==
    /\ CallAllowed(user)
    /\ LET out == userRateLimit(NewReq("direct:userRateLimit", NoHeader, user, NoBody),
                                userRequests, now)
       IN  /\ reqs' = [reqs EXCEPT ![c] = out.req]
           /\ userRequests' = out.map
           /\ admitted' = IF user # NoUser /\ out.req.state = "passed"
                          THEN Admit(admitted, user.userId, now)
                          ELSE admitted
           /\ prev' = PrevAfter(c)
    /\ UNCHANGED <<now, ticks, env, users, tasks, nextId, issued>>

(* The clock moves on between two calls *)
Advance(steps) ==
    /\ \E d \in steps : now' = now + d
    /\ ticks' = ticks + 1
    /\ UNCHANGED <<env, users, tasks, nextId, issued, reqs, prev, userRequests,
                   admitted>>

LimiterSteps == {1, windowMs}

InitCommon ==
    /\ now = 0
    /\ ticks = 0
    /\ tasks = {}
    /\ nextId = 1
    /\ issued = {}
    /\ reqs = [c \in Clients |-> Idle]
    /\ prev = [res |-> NoResponse, why |-> "none"]
    /\ userRequests = [u \in UserIds |-> NoRecord]
    /\ admitted = [u \in UserIds |-> NoWindow]

InitLimiter ==
    /\ InitCommon
    /\ env = [JWT_SECRET |-> "unset", JWT_EXPIRES_IN |-> "unset"]
    /\ users = {}

LimiterCall == \E user \in LimiterUsers : CallUserRateLimit(1, user)
LimiterTick ==
    /\ ticks < MaxTicks
    /\ Advance(LimiterSteps)

NextLimiter == LimiterCall \/ LimiterTick

SpecLimiter == InitLimiter /\ [][NextLimiter]_vars

-----------------------------------------------------------------------------
(* Tokens: jwt.sign / jwt.verify of jsonwebtoken as the controllers use it *)

(* process.env.JWT_SECRET || 'fallback-secret-key' : unset and the empty   *)
(* string are both falsy                                                   *)
SecretOf(e) ==
    IF e.JWT_SECRET \in {"unset", ""} THEN "fallback-secret-key" ELSE e.JWT_SECRET

(* process.env.JWT_EXPIRES_IN || '7d' *)
ExpiresInOf(e) ==
    IF e.JWT_EXPIRES_IN \in {"unset", ""} THEN "7d" ELSE e.JWT_EXPIRES_IN

(* The time span a string stands for, in ms: a bare number is a number of  *)
(* milliseconds                                                            *)
SpanMs(str) ==
    CASE str = "7d" -> 604800000
      [] str = "1h" -> 3600000
      [] str = "60" -> 60
      [] OTHER -> 0

(* A signed token: the key it was signed with and its payload *)
Jwt(key, payload) == [kind |-> "jwt", key |-> key, payload |-> payload]
Garbage == [kind |-> "garbage"]

(* jwt.sign(payload, secret, { expiresIn }): iat is the clock in whole     *)
(* seconds, exp = floor(iat + span / 1000)                                 *)
jwtSign(userId, username, secret, expiresIn, t) ==
    LET iat == t \div 1000
    IN  Jwt(secret, Claims(userId, username, iat,
                           iat + (SpanMs(expiresIn) \div 1000), NoTime))

generateTokenOtherSecret(userId, username, e, t) ==
    jwtSign(userId, username,
            IF e.JWT_SECRET = "unset" THEN "fallback-secret-key-change-in-production"
            ELSE e.JWT_SECRET,
            ExpiresInOf(e), t)
(* generateToken(userId, username) *)
generateToken(userId, username, e, t) ==
    jwtSign(userId, username, SecretOf(e), ExpiresInOf(e), t)

JwtOk(decoded) == [name |-> "none", message |-> "none", decoded |-> decoded]
JwtErr(name, message) == [name |-> name, message |-> message, decoded |-> NoUser]

ExpiredAtLate(payload, t) == (t \div 1000) > payload.exp
(* clockTimestamp >= payload.exp *)
ExpiredAt(payload, t) == (t \div 1000) >= payload.exp

(* jwt.verify(token, secret, callback): what the callback receives. The    *)
(* token string is the characters left in front of the credential and the  *)
(* credential. Checks run in the library's order: shape, signature,        *)
(* not-before, expiry.                                                     *)
jwtVerify(token, secret, t) ==
    IF token.pre # <<>> \/ token.cred.kind # "jwt"
    THEN JwtErr("JsonWebTokenError", "jwt malformed")
    ELSE IF token.cred.key # secret
    THEN JwtErr("JsonWebTokenError", "invalid signature")
    ELSE IF token.cred.payload.nbf # NoTime /\ token.cred.payload.nbf > (t \div 1000)
    THEN JwtErr("NotBeforeError", "jwt not active")
    ELSE IF token.cred.payload.exp # NoTime /\ ExpiredAt(token.cred.payload, t)
    THEN JwtErr("TokenExpiredError", "jwt expired")
    ELSE JwtOk(token.cred.payload)

-----------------------------------------------------------------------------
(* Auth middleware *)

Header(pre, cred) == [kind |-> "header", pre |-> pre, cred |-> cred]

BearerSp == <<"B", "e", "a", "r", "e", "r", " ">>

(* authHeader && authHeader.startsWith('Bearer ') ? authHeader.substring(7) : null *)
NoToken == [kind |-> "null"]

ExtractToken(h) ==
    IF h = NoHeader
    THEN NoToken
    ELSE IF Len(h.pre) >= Len(BearerSp) /\ SubSeq(h.pre, 1, Len(BearerSp)) = BearerSp
    THEN [kind |-> "string", pre |-> SubSeq(h.pre, 8, Len(h.pre)), cred |-> h.cred]
    ELSE NoToken

(* !token : null and the empty string are falsy *)
Falsy(token) == token = NoToken \/ (token.pre = <<>> /\ token.cred = NoCred)

TokenRequired ==
    Response(401, "Token requerido",
             "Se requiere un token de acceso valido para acceder a este recurso")

AuthErrorMessageGeneric(error) == "Token invalido"
(* the message authenticateToken picks from error.name *)
AuthErrorMessage(error) ==
    CASE error.name = "TokenExpiredError" ->
            "El token ha expirado. Por favor, inicia sesion nuevamente"
      [] error.name = "JsonWebTokenError" -> "Token malformado o invalido"
      [] error.name = "NotBeforeError" -> "Token no valido aun"
      [] OTHER -> "Token invalido"

AuthFailed(error) == Response(401, "Autenticacion fallida", AuthErrorMessage(error))

authenticateTokenLenient(r, e, t) ==
    LET token == ExtractToken(r.header)
    IN  IF Falsy(token)
        THEN CallNext(r)
        ELSE LET v == jwtVerify(token, SecretOf(e), t)
             IN  IF v.name # "none"
                 THEN Send([r EXCEPT !.jwtError = v.message], AuthFailed(v))
                 ELSE CallNext([r EXCEPT !.user = v.decoded])
(* a middleware that attaches the payload before it verifies the token *)
authenticateTokenEager(r, e, t) ==
    LET token == ExtractToken(r.header)
    IN  IF Falsy(token)
        THEN Send(r, TokenRequired)
        ELSE LET v == jwtVerify(token, SecretOf(e), t)
                 seen == IF token.cred.kind = "jwt"
                         THEN [r EXCEPT !.user = token.cred.payload]
                         ELSE r
             IN  IF v.name # "none"
                 THEN Send([seen EXCEPT !.jwtError = v.message], AuthFailed(v))
                 ELSE CallNext([r EXCEPT !.user = v.decoded])

(* authenticateToken(req, res, next) *)
authenticateToken(r, e, t) ==
    LET token == ExtractToken(r.header)
    IN  IF Falsy(token)
        THEN Send(r, TokenRequired)
        ELSE LET v == jwtVerify(token, SecretOf(e), t)
             IN  IF v.name # "none"
                 THEN Send([r EXCEPT !.jwtError = v.message], AuthFailed(v))
                 ELSE CallNext([r EXCEPT !.user = v.decoded])

optionalAuthStrict(r, e, t) == authenticateToken(r, e, t)
(* optionalAuth(req, res, next) *)
optionalAuth(r, e, t) ==
    LET token == ExtractToken(r.header)
    IN  IF Falsy(token)
        THEN CallNext(r)
        ELSE LET v == jwtVerify(token, SecretOf(e), t)
             IN  IF v.name = "none" /\ v.decoded # NoUser
                 THEN CallNext([r EXCEPT !.user = v.decoded])
                 ELSE CallNext([r EXCEPT !.jwtError = v.message])

-----------------------------------------------------------------------------
(* Values of request bodies and query strings *)

(* A field that the client did not send *)
Absent == [kind |-> "absent"]
Null == [kind |-> "null"]
Bool(v) == [kind |-> "bool", v |-> v]
(* A string: its text without surrounding blanks (`core`, of `len`         *)
(* characters) and the number of surrounding blanks                        *)
Str(core, len, pad) == [kind |-> "str", core |-> core, len |-> len, pad |-> pad]
(* A date: its instant and whether it was written in ISO 8601 *)
DateV(t, iso) == [kind |-> "date", t |-> t, iso |-> iso]

(* String.prototype.trim / Joi .trim() under convert *)
Trim(v) == IF v.kind \in {"str", "mail"} THEN [v EXCEPT !.pad = 0] ELSE v

(* A task body: the five fields of ICreateTaskDTO / IUpdateTaskDTO and     *)
(* whether the object carries keys outside the schema                      *)
TaskBody(title, description, completed, priority, dueDate, extra) ==
    [kind |-> "taskbody", title |-> title, description |-> description,
     completed |-> completed, priority |-> priority, dueDate |-> dueDate,
     extra |-> extra]

FieldError(field, message) == [field |-> field, message |-> message]

(* An ObjectId as text: which id, how many characters, all hex or not *)
Oid(n) == [kind |-> "id", n |-> n, len |-> 24, hex |-> TRUE]
BadId == [kind |-> "id", n |-> 0, len |-> 3, hex |-> TRUE]

Priorities == {"baja", "media", "alta"}

-----------------------------------------------------------------------------
(* validators/taskValidator.ts *)

TitleErrorsNoMax(v, required) ==
    IF v = Absent
    THEN IF required THEN <<FieldError("title", "El titulo es obligatorio")>> ELSE <<>>
    ELSE IF v.kind # "str" THEN <<FieldError("title", "\"title\" must be a string")>>
    ELSE IF v.len = 0 THEN <<FieldError("title", "El titulo no puede estar vacio")>>
    ELSE <<>>
TitleErrors(v, required) ==
    IF v = Absent
    THEN IF required THEN <<FieldError("title", "El titulo es obligatorio")>> ELSE <<>>
    ELSE IF v.kind # "str" THEN <<FieldError("title", "\"title\" must be a string")>>
    ELSE IF v.len = 0 THEN <<FieldError("title", "El titulo no puede estar vacio")>>
    ELSE IF v.len > 100
    THEN <<FieldError("title", "El titulo no puede exceder 100 caracteres")>>
    ELSE <<>>

DescriptionErrors(v) ==
    IF v = Absent THEN <<>>
    ELSE IF v.kind # "str"
    THEN <<FieldError("description", "\"description\" must be a string")>>
    ELSE IF v.len > 500
    THEN <<FieldError("description", "La descripcion no puede exceder 500 caracteres")>>
    ELSE <<>>

CompletedErrors(v) ==
    IF v = Absent \/ v.kind = "bool" THEN <<>>
    ELSE IF v.kind = "str" /\ v.core \in {"true", "false"} /\ v.pad = 0 THEN <<>>
    ELSE <<FieldError("completed", "El campo completed debe ser verdadero o falso")>>

PriorityErrors(v) ==
    IF v = Absent THEN <<>>
    ELSE IF v.kind = "str" /\ v.core \in Priorities /\ v.pad = 0 THEN <<>>
    ELSE <<FieldError("priority", "La prioridad debe ser: baja, media, alta")>>

DueDateErrors(v) ==
    IF v = Absent \/ v = Null THEN <<>>
    ELSE IF v.kind = "date" /\ v.iso THEN <<>>
    ELSE IF v.kind = "date"
    THEN <<FieldError("dueDate",
             "La fecha debe estar en formato ISO valido (YYYY-MM-DDTHH:mm:ss.sssZ)")>>
    ELSE <<FieldError("dueDate", "La fecha de vencimiento debe ser una fecha valida")>>

(* Joi.boolean() under convert: the strings 'true' and 'false' become booleans *)
ToBool(v) == IF v.kind = "str" THEN Bool(v.core = "true") ELSE v

NoDefault(v, d) == v
(* Joi .default(d) and the defaults of the Mongoose schema *)
Default(v, d) == IF v = Absent THEN d ELSE v

KeepUnknown(extra) == extra
(* stripUnknown: true -- the keys outside the schema are removed from the  *)
(* validated value                                                         *)
StripUnknown(extra) == FALSE

(* abortEarly: false -- the errors of every field, in schema order *)
TaskFieldErrors(b, titleRequired) ==
    TitleErrors(Trim(b.title), titleRequired) \o DescriptionErrors(Trim(b.description))
      \o CompletedErrors(b.completed) \o PriorityErrors(b.priority)
      \o DueDateErrors(b.dueDate)

(* validateCreateTask: createTaskSchema.validate(req.body,                 *)
(* { abortEarly: false, stripUnknown: true })                              *)
validateCreateTask(r) ==
    LET b == r.body
        errors == TaskFieldErrors(b, TRUE)
    IN  IF errors # <<>>
        THEN Send(r, ErrorDetails(400, "Datos de entrada invalidos",
                  "La informacion proporcionada para crear la tarea no es valida",
                  errors))
        ELSE CallNext([r EXCEPT !.body =
                 TaskBody(Trim(b.title),
                          Default(Trim(b.description), Str("", 0, 0)),
                          Default(ToBool(b.completed), Bool(FALSE)),
                          Default(b.priority, Str("media", 5, 0)),
                          Default(b.dueDate, Null),
                          StripUnknown(b.extra))])

KnownKeysAndOthers(b) ==
    {k \in {"title", "description", "completed", "priority", "dueDate"} : b[k] # Absent}
      \cup (IF b.extra THEN {"other"} ELSE {})
(* the keys of the schema present in the body *)
KnownKeys(b) ==
    {k \in {"title", "description", "completed", "priority", "dueDate"} : b[k] # Absent}

(* validateUpdateTask: updateTaskSchema (.min(1)) with the same options *)
validateUpdateTask(r) ==
    LET b == r.body
        fieldErrors == TaskFieldErrors(b, FALSE)
        errors == IF fieldErrors = <<>> /\ KnownKeys(b) = {}
                  THEN <<FieldError("", "Debe proporcionar al menos un campo para actualizar")>>
                  ELSE fieldErrors
    IN  IF errors # <<>>
        THEN Send(r, ErrorDetails(400, "Datos de entrada invalidos",
                  "La informacion proporcionada para actualizar la tarea no es valida",
                  errors))
        ELSE CallNext([r EXCEPT !.body =
                 TaskBody(Trim(b.title), Trim(b.description), ToBool(b.completed),
                          b.priority, b.dueDate, StripUnknown(b.extra))])

(* an id check that accepts what ObjectId.isValid accepts *)
validateMongoIdLenient(r) ==
    IF (r.id.len = 24 /\ r.id.hex) \/ r.id.len = 12
    THEN CallNext(r)
    ELSE Send(r, Response(400, "ID invalido",
                          "El ID proporcionado no es un ObjectId valido de MongoDB"))

(* mongoIdSchema: /^[0-9a-fA-F]{24}$/ *)
validateMongoId(r) ==
    IF r.id.len = 24 /\ r.id.hex
    THEN CallNext(r)
    ELSE Send(r, Response(400, "ID invalido",
                          "El ID proporcionado no es un ObjectId valido de MongoDB"))

(* req.query of GET /api/tasks *)
TaskQuery(completed, priority, sortBy, order, extra) ==
    [kind |-> "query", completed |-> completed, priority |-> priority,
     sortBy |-> sortBy, order |-> order, extra |-> extra]

SortKeys == {"title", "completed", "priority", "dueDate", "createdAt", "updatedAt"}

(* abortEarly is left at its default here: the first error only *)
QueryErrors(q) ==
    IF CompletedErrors(q.completed) # <<>>
    THEN <<FieldError("completed", "El parametro completed debe ser true o false")>>
    ELSE IF PriorityErrors(q.priority) # <<>> THEN PriorityErrors(q.priority)
    ELSE IF q.sortBy # Absent /\ ~(q.sortBy.kind = "str" /\ q.sortBy.core \in SortKeys
                                   /\ q.sortBy.pad = 0)
    THEN <<FieldError("sortBy",
        "El campo sortBy debe ser: title, completed, priority, dueDate, createdAt, o updatedAt")>>
    ELSE IF q.order # Absent /\ ~(q.order.kind = "str" /\ q.order.core \in {"asc", "desc"}
                                  /\ q.order.pad = 0)
    THEN <<FieldError("order", "El orden debe ser: asc o desc")>>
    ELSE <<>>

(* validateTaskQueryFilters: querySchema.validate(req.query, { stripUnknown: true }) *)
validateTaskQueryFilters(r) ==
    LET q == r.query
        errors == QueryErrors(q)
    IN  IF errors # <<>>
        THEN Send(r, ErrorDetails(400, "Parametros de consulta invalidos",
                  "Los filtros proporcionados no son validos", errors))
        ELSE CallNext([r EXCEPT !.query =
                 TaskQuery(ToBool(q.completed), q.priority,
                           Default(q.sortBy, Str("createdAt", 9, 0)),
                           Default(q.order, Str("desc", 4, 0)),
                           StripUnknown(q.extra))])

-----------------------------------------------------------------------------
(* controllers/taskController.ts over the tasks collection *)

TaskDoc(id, b, createdAt, updatedAt) ==
    [id |-> id, title |-> b.title, description |-> b.description,
     completed |-> b.completed, priority |-> b.priority, dueDate |-> b.dueDate,
     createdAt |-> createdAt, updatedAt |-> updatedAt]

(* mongoose.Types.ObjectId.isValid(id) *)
IsValidObjectId(id) == (id.len = 24 /\ id.hex) \/ id.len = 12

InvalidIdResponse ==
    Response(400, "ID invalido", "El ID proporcionado no es un ObjectId valido de MongoDB")

TaskNotFound ==
    Response(404, "Tarea no encontrada", "No existe una tarea con el ID proporcionado")

(* a filter that takes a false `completed` for an absent one *)
MatchesTruthy(task, q) ==
    /\ (q.completed = Bool(TRUE) => task.completed = q.completed)
    /\ (q.priority # Absent => task.priority = q.priority)

(* Task.find(filters): only the keys present in the query constrain *)
Matches(task, q) ==
    /\ (q.completed # Absent => task.completed = q.completed)
    /\ (q.priority # Absent => task.priority = q.priority)

(* the strings of the model in the binary order MongoDB compares them by *)
Collation == <<"", "alta", "baja", "d", "long", "media", "t1", "t2">>

(* the rank of the value of a sort key: null before every date, false      *)
(* before true, strings by collation, timestamps by instant                *)
KeyRank(task, key) ==
    CASE key \in {"createdAt", "updatedAt"} -> task[key]
      [] key = "completed" -> IF task.completed = Bool(TRUE) THEN 1 ELSE 0
      [] key = "dueDate" -> IF task.dueDate = Null THEN 0 - 1 ELSE task.dueDate.t
      [] OTHER -> CHOOSE i \in 1..Len(Collation) : Collation[i] = task[key].core

(* a sort that ignores the direction *)
InOrderAscending(list, key, sortOrder) ==
    \A i, j \in 1..Len(list) : i < j => KeyRank(list[i], key) <= KeyRank(list[j], key)

(* .sort({ [sortBy]: sortOrder }): ascending for 1, descending for -1 *)
InOrder(list, key, sortOrder) ==
    \A i, j \in 1..Len(list) :
        i < j => sortOrder * KeyRank(list[i], key) <= sortOrder * KeyRank(list[j], key)

(* the arrangements of a set of documents in a list *)
Arrangements(found) ==
    {list \in [1..Cardinality(found) -> found] :
        \A i, j \in 1..Cardinality(found) : i # j => list[i] # list[j]}

(* the lists .find(filters).sort(sortOptions) can return: the documents    *)
(* that match, in order of the key; documents with equal keys come in any  *)
(* order                                                                   *)
FindSorted(store, q) ==
    LET sortBy == Default(q.sortBy, Str("createdAt", 9, 0)).core
        sortOrder == IF Default(q.order, Str("desc", 4, 0)).core = "asc" THEN 1 ELSE 0 - 1
    IN  {list \in Arrangements({task \in store : Matches(task, q)}) :
            InOrder(list, sortBy, sortOrder)}

(* a list handler that returns the first document only *)
getAllTasksFirst(r, list) ==
    LET first == IF list = <<>> THEN <<>> ELSE <<list[1]>>
    IN  Send(r, Success(200, "", [kind |-> "list", count |-> Len(first), tasks |-> first]))

(* getAllTasks: the list found, and its length as count *)
getAllTasks(r, list) ==
    Send(r, Success(200, "", [kind |-> "list", count |-> Len(list), tasks |-> list]))

(* getTaskById *)
getTaskById(r, store) ==
    IF ~IsValidObjectId(r.id)
    THEN Send(r, InvalidIdResponse)
    ELSE IF \E task \in store : task.id = r.id
    THEN Send(r, Success(200, "", CHOOSE task \in store : task.id = r.id))
    ELSE Send(r, TaskNotFound)

(* What a body sets through keys outside the Joi schema when they are not *)
(* stripped: _id and createdAt are paths of the Mongoose schema            *)
Foreign == [id |-> Oid(9), createdAt |-> 999]

(* new Task(body): a fresh _id, the schema's setters and defaults;         *)
(* createdAt and updatedAt default to Date.now                             *)
newTask(b, id, t) ==
    LET fields == TaskBody(Trim(b.title),
                           Default(Trim(b.description), Str("", 0, 0)),
                           Default(ToBool(b.completed), Bool(FALSE)),
                           Default(b.priority, Str("media", 5, 0)),
                           Default(b.dueDate, Null), FALSE)
    IN  IF b.extra
        THEN TaskDoc(Foreign.id, fields, Foreign.createdAt, t)
        ELSE TaskDoc(Oid(id), fields, t, t)

(* createTask up to its await: new Task(req.body), save() called *)
createTask(r, id, t) == [r EXCEPT !.doc = newTask(r.body, id, t), !.hpc = "save"]

(* the schema's validators run by save() *)
TaskSchemaErrors(doc) ==
    (IF doc.title.kind # "str" \/ doc.title.len = 0
     THEN <<FieldError("title", "El titulo es obligatorio")>>
     ELSE IF doc.title.len > 100
     THEN <<FieldError("title", "El titulo no puede exceder 100 caracteres")>>
     ELSE <<>>)
      \o (IF doc.description.kind = "str" /\ doc.description.len > 500
          THEN <<FieldError("description",
                   "La descripcion no puede exceder 500 caracteres")>>
          ELSE <<>>)

(* createTask after new Task(..): save() runs the validators and the       *)
(* pre-save hook (updatedAt = new Date()) and inserts; then the response,  *)
(* or the catch block. The result is the request and the collection        *)
(* afterwards.                                                             *)
saveTask(r, store, t) ==
    LET doc == [r.doc EXCEPT !.updatedAt = t]
    IN  IF TaskSchemaErrors(r.doc) # <<>>
        THEN [req |-> Send(r, ErrorDetails(400, "Datos de entrada invalidos",
                         "La informacion proporcionada para crear la tarea no es valida",
                         TaskSchemaErrors(r.doc))),
              tasks |-> store]
        ELSE IF \E task \in store : task.id = doc.id
        THEN [req |-> Send(r, Response(500, "Error interno del servidor",
                                       "No se pudo crear la tarea")),
              tasks |-> store]
        ELSE [req |-> Send(r, Success(201, "Tarea creada exitosamente", doc)),
              tasks |-> store \cup {doc}]

(* a replacement of the whole document by the body *)
UpdatedReplace(task, b, t) ==
    [task EXCEPT !.title = b.title, !.description = b.description,
                 !.completed = b.completed, !.priority = b.priority,
                 !.dueDate = b.dueDate, !.updatedAt = t]

(* an update without the pre-findOneAndUpdate hook *)
UpdatedStale(task, b, t) ==
    [task EXCEPT !.title = IF b.title = Absent THEN @ ELSE b.title,
                 !.description = IF b.description = Absent THEN @ ELSE b.description,
                 !.completed = IF b.completed = Absent THEN @ ELSE b.completed,
                 !.priority = IF b.priority = Absent THEN @ ELSE b.priority,
                 !.dueDate = IF b.dueDate = Absent THEN @ ELSE b.dueDate]

(* the fields a validated update body names replace the stored ones *)
Updated(task, b, t) ==
    [task EXCEPT !.title = IF b.title = Absent THEN @ ELSE b.title,
                 !.description = IF b.description = Absent THEN @ ELSE b.description,
                 !.completed = IF b.completed = Absent THEN @ ELSE b.completed,
                 !.priority = IF b.priority = Absent THEN @ ELSE b.priority,
                 !.dueDate = IF b.dueDate = Absent THEN @ ELSE b.dueDate,
                 !.createdAt = IF b.extra THEN Foreign.createdAt ELSE @,
                 !.updatedAt = t]

(* an update with upsert: it stores a new document when it finds none *)
updateTaskUpsert(r, store, t) ==
    IF ~IsValidObjectId(r.id)
    THEN [req |-> Send(r, InvalidIdResponse), tasks |-> store]
    ELSE LET old == IF \E task \in store : task.id = r.id
                    THEN CHOOSE task \in store : task.id = r.id
                    ELSE TaskDoc(r.id, r.body, t, t)
             new == Updated(old, r.body, t)
         IN  [req |-> Send(r, Success(200, "Tarea actualizada exitosamente", new)),
              tasks |-> (store \ {old}) \cup {new}]

(* updateTask: Task.findByIdAndUpdate(id, req.body, { new, runValidators }) *)
(* with the pre-findOneAndUpdate hook                                       *)
updateTask(r, store, t) ==
    IF ~IsValidObjectId(r.id)
    THEN [req |-> Send(r, InvalidIdResponse), tasks |-> store]
    ELSE IF \E task \in store : task.id = r.id
    THEN LET old == CHOOSE task \in store : task.id = r.id
             new == Updated(old, r.body, t)
         IN  [req |-> Send(r, Success(200, "Tarea actualizada exitosamente", new)),
              tasks |-> (store \ {old}) \cup {new}]
    ELSE [req |-> Send(r, TaskNotFound), tasks |-> store]

(* a delete reserved to one caller *)
deleteTaskOwnOnly(r, store) ==
    IF r.user.userId # "u1"
    THEN [req |-> Send(r, Response(403, "Prohibido", "La tarea pertenece a otro usuario")),
          tasks |-> store]
    ELSE IF \E task \in store : task.id = r.id
    THEN LET old == CHOOSE task \in store : task.id = r.id
         IN  [req |-> Send(r, Success(200, "Tarea eliminada exitosamente", old)),
              tasks |-> store \ {old}]
    ELSE [req |-> Send(r, TaskNotFound), tasks |-> store]

(* deleteTask: Task.findByIdAndDelete(id) *)
deleteTask(r, store) ==
    IF ~IsValidObjectId(r.id)
    THEN [req |-> Send(r, InvalidIdResponse), tasks |-> store]
    ELSE IF \E task \in store : task.id = r.id
    THEN LET old == CHOOSE task \in store : task.id = r.id
         IN  [req |-> Send(r, Success(200, "Tarea eliminada exitosamente", old)),
              tasks |-> store \ {old}]
    ELSE [req |-> Send(r, TaskNotFound), tasks |-> store]

(* a percentage cut off instead of rounded *)
RoundPercentDown(x, y) == (100 * x) \div y
(* Math.round(x / y * 100) for 0 <= x <= y, y > 0: the nearest integer,    *)
(* the upper one when x / y * 100 is computed as exactly a half. (In       *)
(* doubles the product can fall just below a half it should hit, 23 / 40 * *)
(* 100 = 57.49999999999999; no such pair exists below a total of 40.)      *)
RoundPercent(x, y) == (200 * x + y) \div (2 * y)

(* an overdue test that forgets the completed tasks *)
OverdueWhateverState(task, t) ==
    IF task.dueDate = Null THEN FALSE ELSE task.dueDate.t < t

(* the $cond of overdueTasks: dueDate not null, earlier than new Date(),   *)
(* completed false                                                         *)
Overdue(task, t) ==
    IF task.dueDate = Null THEN FALSE
    ELSE task.dueDate.t < t /\ task.completed = Bool(FALSE)

(* getTaskStats: one $group pass over the collection *)
getTaskStats(r, store, t) ==
    LET total == Cardinality(store)
        completed == Cardinality({task \in store : task.completed = Bool(TRUE)})
        pending == Cardinality({task \in store : task.completed = Bool(FALSE)})
        high == Cardinality({task \in store : task.priority = Str("alta", 4, 0)})
        overdue == Cardinality({task \in store : Overdue(task, t)})
    IN  Send(r, Success(200, "",
                 [kind |-> "stats", totalTasks |-> total, completedTasks |-> completed,
                  pendingTasks |-> pending, highPriorityTasks |-> high,
                  overdueTasks |-> overdue,
                  completionPercentage |->
                      IF total > 0 THEN RoundPercent(completed, total) ELSE 0]))

-----------------------------------------------------------------------------
(* controllers/authController.ts: the handlers behind authenticateToken *)

(* getUserProfile *)
getUserProfile(r, store) ==
    IF r.user = NoUser
    THEN Send(r, Response(401, "No autorizado", "Token de acceso invalido"))
    ELSE IF \E user \in store : user.id = r.user.userId
    THEN LET user == CHOOSE user \in store : user.id = r.user.userId
         IN  Send(r, Success(200, "",
                     [kind |-> "profile", id |-> user.id, username |-> user.username,
                      email |-> user.email, createdAt |-> user.createdAt]))
    ELSE Send(r, Response(404, "Usuario no encontrado",
                          "El usuario no existe en el sistema"))

(* verifyToken *)
verifyToken(r) ==
    IF r.user = NoUser
    THEN Send(r, Response(401, "Token invalido", "El token proporcionado no es valido"))
    ELSE Send(r, Success(200, "Token valido",
                 [kind |-> "verified", userId |-> r.user.userId,
                  username |-> r.user.username, iat |-> r.user.iat,
                  exp |-> r.user.exp]))

-----------------------------------------------------------------------------
(* The steps of a request through its chain *)

(* A middleware that touches nothing but the request *)
RequestStep(c, name, after) ==
    /\ Running(c, name)
    /\ reqs' = [reqs EXCEPT ![c] = after]
    /\ UNCHANGED <<now, ticks, env, users, tasks, nextId, issued, prev, userRequests,
                   admitted>>

(* A handler that also writes the tasks collection *)
TaskStep(c, name, out) ==
    /\ Running(c, name)
    /\ reqs' = [reqs EXCEPT ![c] = out.req]
    /\ tasks' = out.tasks
    /\ UNCHANGED <<now, ticks, env, users, issued, prev, userRequests, admitted>>

AuthenticateToken(c) ==
    RequestStep(c, "authenticateToken", authenticateToken(reqs[c], env, now))

OptionalAuth(c) ==
    RequestStep(c, "optionalAuth", optionalAuth(reqs[c], env, now))

ValidateTaskQueryFilters(c) ==
    RequestStep(c, "validateTaskQueryFilters", validateTaskQueryFilters(reqs[c]))

ValidateMongoId(c) == RequestStep(c, "validateMongoId", validateMongoId(reqs[c]))

ValidateCreateTask(c) == RequestStep(c, "validateCreateTask", validateCreateTask(reqs[c]))

ValidateUpdateTask(c) == RequestStep(c, "validateUpdateTask", validateUpdateTask(reqs[c]))

GetAllTasks(c) ==
    /\ Running(c, "getAllTasks")
    /\ \E list \in FindSorted(tasks, reqs[c].query) :
          RequestStep(c, "getAllTasks", getAllTasks(reqs[c], list))

GetTaskById(c) == RequestStep(c, "getTaskById", getTaskById(reqs[c], tasks))

GetTaskStats(c) == RequestStep(c, "getTaskStats", getTaskStats(reqs[c], tasks, now))

GetUserProfile(c) == RequestStep(c, "getUserProfile", getUserProfile(reqs[c], users))

VerifyToken(c) == RequestStep(c, "verifyToken", verifyToken(reqs[c]))

CreateTask(c) ==
    /\ Running(c, "createTask")
    /\ reqs[c].hpc = "start"
    /\ reqs' = [reqs EXCEPT ![c] = createTask(reqs[c], nextId, now)]
    /\ nextId' = nextId + 1
    /\ UNCHANGED <<now, ticks, env, users, tasks, issued, prev, userRequests, admitted>>

SaveTask(c) ==
    /\ (IF IsReq(reqs[c]) THEN reqs[c].hpc = "save" ELSE FALSE)
    /\ TaskStep(c, "createTask", saveTask(reqs[c], tasks, now))
    /\ UNCHANGED nextId

UpdateTask(c) ==
    /\ TaskStep(c, "updateTask", updateTask(reqs[c], tasks, now))
    /\ UNCHANGED nextId

DeleteTask(c) ==
    /\ TaskStep(c, "deleteTask", deleteTask(reqs[c], tasks))
    /\ UNCHANGED nextId

(* A client sends a request; `p` is what `prev` holds afterwards *)
Submit(c, r, p) ==
    /\ Free(c)
    /\ reqs' = [reqs EXCEPT ![c] = r]
    /\ prev' = p
    /\ UNCHANGED <<now, ticks, env, users, tasks, nextId, issued, userRequests, admitted>>

NewRequest(c, route, header, body, id, query) ==
    Submit(c, [NewReq(route, header, NoUser, body) EXCEPT !.id = id, !.query = query,
                                                             !.sent.query = query],
           PrevAfter(c))

(* generateToken as loginUser and registerUser call it for a stored user *)
IssueToken(user) ==
    /\ Cardinality(issued) < MaxTokens
    /\ issued' = issued \cup {[tok |-> generateToken(user.id, user.username, env, now),
                                userId |-> user.id, username |-> user.username]}
    /\ UNCHANGED <<now, ticks, env, users, tasks, nextId, reqs, prev, userRequests,
                   admitted>>

-----------------------------------------------------------------------------
(* Specification of the authenticated routes *)

UserDoc(id, username, email, password, createdAt) ==
    [id |-> id, username |-> username, email |-> email, password |-> password,
     createdAt |-> createdAt, updatedAt |-> createdAt]

(* Tokens nobody issued: signed with a key of the sender's choosing *)
ForgedTokens ==
    {Jwt("evil-key", Claims("u1", "ann", 0, NoTime, NoTime)),
     Jwt("fallback-secret-key", Claims("u9", "mallory", 0, NoTime, 1))}

IssuedTokens == {rec.tok : rec \in issued}

BasicSp == <<"B", "a", "s", "i", "c", " ">>
LowerBearerSp == <<"b", "e", "a", "r", "e", "r", " ">>

(* Authorization headers a client may send *)
AuthHeaders ==
    {NoHeader, Header(<<>>, NoCred), Header(BearerSp, NoCred),
     Header(BearerSp, Garbage)}
      \cup {Header(BearerSp, tok) : tok \in IssuedTokens \cup ForgedTokens}
      \cup {Header(pre, tok) : pre \in {BasicSp, LowerBearerSp, BearerSp \o <<" ">>},
                               tok \in IssuedTokens}

EmptyQuery == TaskQuery(Absent, Absent, Absent, Absent, FALSE)

AuthRoutes == {"GET /api/auth/verify", "GET /api/auth/profile", "direct:optionalAuth"}

AuthRequest ==
    \E route \in AuthRoutes, header \in AuthHeaders :
        NewRequest(1, route, header, NoBody, NoId, NoQuery)

AuthIssue == \E user \in users : IssueToken(user)

(* waits that bring the clock to the last second of a token's life and     *)
(* across its end                                                          *)
AuthSteps == {1, SpanMs(ExpiresInOf(env)) - 1}

AuthTick ==
    /\ ticks < MaxAuthTicks
    /\ Advance(AuthSteps)

AuthMiddleware == AuthenticateToken(1) \/ OptionalAuth(1)

AuthHandler == GetUserProfile(1) \/ VerifyToken(1)

InitAuth ==
    /\ InitCommon
    /\ env \in [JWT_SECRET : {"unset", "s3cret"}, JWT_EXPIRES_IN : {"unset", "60"}]
    /\ users = {UserDoc("u1", "ann", "ann@x.com", "h1", 0),
                UserDoc("u2", "bob", "bob@x.com", "h2", 0)}

NextAuth == AuthRequest \/ AuthIssue \/ AuthTick \/ AuthMiddleware \/ AuthHandler

SpecAuth == InitAuth /\ [][NextAuth]_vars

-----------------------------------------------------------------------------------------------------------------------------------------------------
(* Specification of the gate in front of every protected route *)

GateHeaders ==
    {NoHeader, Header(BearerSp, Garbage)}
      \cup {Header(BearerSp, tok) : tok \in IssuedTokens}

NewTask == TaskBody(Str("t1", 2, 0), Absent, Absent, Absent, Absent, FALSE)
Completion == TaskBody(Absent, Absent, Bool(TRUE), Absent, Absent, FALSE)
GateIds == {Oid(1), BadId}

(* one request per shape of protected route *)
GateShapes ==
    {[route |-> "GET /api/tasks", body |-> NoBody, id |-> NoId, query |-> EmptyQuery],
     [route |-> "GET /api/tasks/stats", body |-> NoBody, id |-> NoId, query |-> NoQuery],
     [route |-> "POST /api/tasks", body |-> NewTask, id |-> NoId, query |-> NoQuery],
     [route |-> "GET /api/auth/profile", body |-> NoBody, id |-> NoId, query |-> NoQuery],
     [route |-> "GET /api/auth/verify", body |-> NoBody, id |-> NoId, query |-> NoQuery]}
      \cup {[route |-> "GET /api/tasks/:id", body |-> NoBody, id |-> id, query |-> NoQuery] :
               id \in GateIds}
      \cup {[route |-> "PUT /api/tasks/:id", body |-> Completion, id |-> id,
             query |-> NoQuery] : id \in GateIds}
      \cup {[route |-> "DELETE /api/tasks/:id", body |-> NoBody, id |-> id,
             query |-> NoQuery] : id \in GateIds}

GateRequest ==
    \E shape \in GateShapes, header \in GateHeaders :
        /\ (shape.route = "POST /api/tasks" => nextId <= MaxTasks)
        /\ NewRequest(1, shape.route, header, shape.body, shape.id, shape.query)

GateIssue == \E user \in users : IssueToken(user)

GateAuthenticate == AuthenticateToken(1)

GateValidator ==
    \/ ValidateTaskQueryFilters(1)
    \/ ValidateMongoId(1)
    \/ ValidateCreateTask(1)
    \/ ValidateUpdateTask(1)

GateHandler ==
    \/ GetAllTasks(1)
    \/ GetTaskById(1)
    \/ GetTaskStats(1)
    \/ CreateTask(1)
    \/ SaveTask(1)
    \/ UpdateTask(1)
    \/ DeleteTask(1)
    \/ GetUserProfile(1)
    \/ VerifyToken(1)

InitGate ==
    /\ InitCommon
    /\ env \in [JWT_SECRET : {"unset", "s3cret"}, JWT_EXPIRES_IN : {"unset"}]
    /\ users = {UserDoc("u1", "ann", "ann@x.com", "h1", 0),
                UserDoc("u2", "bob", "bob@x.com", "h2", 0)}

NextGate == GateRequest \/ GateIssue \/ GateAuthenticate \/ GateValidator \/ GateHandler

SpecGate == InitGate /\ [][NextGate]_vars

-----------------------------------------------------------------------------
(* validators/userValidator.ts *)

(* An e-mail address: its text in lower case without surrounding blanks,   *)
(* whether it was written with capitals, the blanks around it, and its     *)
(* form: "plain" (accepted by Joi and by the schema's pattern), "plus" (a  *)
(* '+' in the local part: accepted by Joi .email(), not by the schema's    *)
(* pattern) or "bad" (no address at all)                                   *)
Mail(core, caps, pad, form) ==
    [kind |-> "mail", core |-> core, caps |-> caps, pad |-> pad, form |-> form]

(* String.prototype.toLowerCase / Joi .lowercase() under convert *)
Lowercase(v) == IF v.kind = "mail" THEN [v EXCEPT !.caps = FALSE] ELSE v

(* the texts the pattern /^[a-zA-Z0-9_]+$/ does not match *)
NonWords == {"a b", "ann!"}

RegBody(username, email, password, extra) ==
    [kind |-> "regbody", username |-> username, email |-> email,
     password |-> password, extra |-> extra]

UsernameErrors(v) ==
    IF v = Absent
    THEN <<FieldError("username", "El nombre de usuario es obligatorio")>>
    ELSE IF v.kind # "str"
    THEN <<FieldError("username", "\"username\" must be a string")>>
    ELSE IF v.len = 0
    THEN <<FieldError("username", "El nombre de usuario es obligatorio")>>
    ELSE (IF v.len < 3
          THEN <<FieldError("username",
                   "El nombre de usuario debe tener al menos 3 caracteres")>>
          ELSE <<>>)
      \o (IF v.len > 30
          THEN <<FieldError("username",
                   "El nombre de usuario no puede exceder 30 caracteres")>>
          ELSE <<>>)
      \o (IF v.core \in NonWords
          THEN <<FieldError("username",
                   "El nombre de usuario solo puede contener letras, numeros y guiones bajos")>>
          ELSE <<>>)

EmailErrors(v) ==
    IF v = Absent
    THEN <<FieldError("email", "El email es obligatorio")>>
    ELSE IF v.kind # "mail"
    THEN <<FieldError("email", "\"email\" must be a string")>>
    ELSE IF v.form = "bad"
    THEN <<FieldError("email", "El formato del email no es valido")>>
    ELSE <<>>

PasswordErrors(v) ==
    IF v = Absent
    THEN <<FieldError("password", "La contrasena es obligatoria")>>
    ELSE IF v.kind # "str"
    THEN <<FieldError("password", "\"password\" must be a string")>>
    ELSE IF v.len + v.pad = 0
    THEN <<FieldError("password", "La contrasena es obligatoria")>>
    ELSE IF v.len + v.pad < 6
    THEN <<FieldError("password", "La contrasena debe tener al menos 6 caracteres")>>
    ELSE IF v.len + v.pad > 128
    THEN <<FieldError("password", "La contrasena no puede exceder 128 caracteres")>>
    ELSE <<>>

(* validateCreateUser: createUserSchema.validate(req.body,                 *)
(* { abortEarly: false, stripUnknown: true })                              *)
validateCreateUser(r) ==
    LET b == r.body
        errors == UsernameErrors(Trim(b.username)) \o EmailErrors(b.email)
                    \o PasswordErrors(b.password)
    IN  IF errors # <<>>
        THEN Send(r, ErrorDetails(400, "Datos de registro invalidos",
                  "La informacion proporcionada para el registro no es valida",
                  errors))
        ELSE CallNext([r EXCEPT !.body =
                 RegBody(Trim(b.username), Lowercase(Trim(b.email)), b.password,
                         StripUnknown(b.extra))])

-----------------------------------------------------------------------------
(* models/User.ts and registerUser of controllers/authController.ts *)

(* bcrypt.hash(password, salt) of the pre-save hook *)
Hash(password) == [kind |-> "hash", of |-> password]

(* new User({ username, email, password }): the schema's setters trim and  *)
(* lower-case, createdAt and updatedAt default to Date.now                 *)
NewUser(id, b, t) ==
    [id |-> id, username |-> Trim(b.username), email |-> Lowercase(Trim(b.email)),
     password |-> b.password, createdAt |-> t, updatedAt |-> t]

(* the schema's validators run by save(): the e-mail pattern is narrower   *)
(* than Joi's                                                              *)
SchemaInvalid(doc) ==
    \/ doc.username.len < 3
    \/ doc.username.len > 30
    \/ doc.username.core \in NonWords
    \/ doc.email.form # "plain"
    \/ doc.password.len + doc.password.pad < 6

(* User.isUsernameTaken(username): !!(await this.findOne({ username })) *)
isUsernameTaken(store, username) == \E user \in store : user.username = username

isEmailTakenNever(store, email) == FALSE
(* User.isEmailTaken(email): !!(await this.findOne({ email })) *)
isEmailTaken(store, email) == \E user \in store : user.email = email

DuplicateKeyNever(store, doc) == FALSE
(* the unique indexes on username and on email refuse the insert *)
DuplicateKey(store, doc) ==
    \E user \in store : user.username = doc.username \/ user.email = doc.email

UsernameConflict == Response(409, "Usuario ya existe", "El nombre de usuario ya esta registrado")
EmailConflict == Response(409, "Email ya registrado", "El email ya esta asociado a otra cuenta")
RegistrationInvalid ==
    Response(400, "Datos de registro invalidos",
             "La informacion proporcionada para el registro no es valida")
RegistrationFailed ==
    Response(500, "Error interno del servidor", "No se pudo registrar el usuario")

(* registerUser up to its first await: User.isUsernameTaken answered *)
registerCheckUsername(r, store) ==
    IF isUsernameTaken(store, r.body.username)
    THEN Send(r, UsernameConflict)
    ELSE [r EXCEPT !.hpc = "checkEmail"]

(* registerUser after User.isEmailTaken answered *)
registerCheckEmail(r, store) ==
    IF isEmailTaken(store, r.body.email)
    THEN Send(r, EmailConflict)
    ELSE [r EXCEPT !.hpc = "save"]

(* registerUser from new User(..) on: save, generateToken, the response;   *)
(* a ValidationError is answered 400, any other error of save 500          *)
registerSave(r, store, tokens, id, e, t) ==
    LET doc == NewUser(Oid(id), r.body, t)
        saved == [doc EXCEPT !.password = Hash(@)]
        token == generateToken(saved.id, saved.username.core, e, t)
    IN  IF SchemaInvalid(doc)
        THEN [req |-> Send(r, RegistrationInvalid), users |-> store, issued |-> tokens]
        ELSE IF DuplicateKey(store, doc)
        THEN [req |-> Send(r, RegistrationFailed), users |-> store, issued |-> tokens]
        ELSE [req |-> Send(r, Success(201, "Usuario registrado exitosamente",
                              [kind |-> "registered", id |-> saved.id,
                               username |-> saved.username, email |-> saved.email,
                               createdAt |-> saved.createdAt, token |-> token])),
              users |-> store \cup {saved},
              issued |-> tokens \cup {[tok |-> token, userId |-> saved.id,
                                       username |-> saved.username.core]}]

ValidateCreateUser(c) ==
    RequestStep(c, "validateCreateUser", validateCreateUser(reqs[c]))

RegisterCheckUsername(c) ==
    /\ (IF IsReq(reqs[c]) THEN reqs[c].hpc = "start" ELSE FALSE)
    /\ RequestStep(c, "registerUser", registerCheckUsername(reqs[c], users))

RegisterCheckEmail(c) ==
    /\ (IF IsReq(reqs[c]) THEN reqs[c].hpc = "checkEmail" ELSE FALSE)
    /\ RequestStep(c, "registerUser", registerCheckEmail(reqs[c], users))

RegisterSave(c) ==
    /\ Running(c, "registerUser")
    /\ reqs[c].hpc = "save"
    /\ LET out == registerSave(reqs[c], users, issued, nextId, env, now)
       IN  /\ reqs' = [reqs EXCEPT ![c] = out.req]
           /\ users' = out.users
           /\ issued' = out.issued
           /\ nextId' = IF out.users = users THEN nextId ELSE nextId + 1
    /\ UNCHANGED <<now, ticks, env, tasks, prev, userRequests, admitted>>

-----------------------------------------------------------------------------
(* Specification of registration, two clients at a time *)

RegUsernames == {Str("ann", 3, 0), Str("ann", 3, 1), Str("bob", 3, 0)}
RegEmails ==
    {Mail("ann@x.com", FALSE, 0, "plain"), Mail("ann@x.com", TRUE, 0, "plain"),
     Mail("bob@x.com", FALSE, 1, "plain")}
GoodPassword == Str("secret", 6, 0)

(* the well-formed registrations, and one body per way of being refused    *)
(* for its form                                                            *)
RegBodies ==
    {RegBody(username, email, GoodPassword, FALSE) :
        username \in RegUsernames, email \in RegEmails}
      \cup {RegBody(Str("ann!", 4, 0), Mail("ann@x.com", FALSE, 0, "plain"),
                    GoodPassword, FALSE),
            RegBody(Str("bob", 3, 0), Mail("bob+1@x.com", FALSE, 0, "plus"),
                    GoodPassword, FALSE),
            RegBody(Str("bob", 3, 0), Mail("bob@x.com", FALSE, 0, "plain"),
                    Str("abc", 3, 0), TRUE)}

RegRequest ==
    \E c \in Clients, body \in RegBodies :
        NewRequest(c, "POST /api/auth/register", NoHeader, body, NoId, NoQuery)

RegValidate == \E c \in Clients : ValidateCreateUser(c)
RegCheckUsername == \E c \in Clients : RegisterCheckUsername(c)
RegCheckEmail == \E c \in Clients : RegisterCheckEmail(c)
RegSave == \E c \in Clients : RegisterSave(c)

InitReg ==
    /\ InitCommon
    /\ env = [JWT_SECRET |-> "unset", JWT_EXPIRES_IN |-> "unset"]
    /\ users = {}

NextReg == RegRequest \/ RegValidate \/ RegCheckUsername \/ RegCheckEmail \/ RegSave

SpecReg == InitReg /\ [][NextReg]_vars

-----------------------------------------------------------------------------
(* Specification of one caller on one protected route: every request that  *)
(* reaches the handler is counted in `admitted`                            *)

RouteIssue == \E user \in users : IssueToken(user)

(* the caller stops once the count has gone past the cap *)
RouteRequest ==
    \E tok \in IssuedTokens :
        /\ \A u \in UserIds :
              IF admitted[u] = NoWindow THEN TRUE
              ELSE admitted[u].n <= maxRequestsPerMinute
        /\ NewRequest(1, "GET /api/tasks/stats", Header(BearerSp, tok), NoBody, NoId, NoQuery)

RouteAuthenticate == AuthenticateToken(1)

RouteHandler ==
    /\ Running(1, "getTaskStats")
    /\ reqs' = [reqs EXCEPT ![1] = getTaskStats(reqs[1], tasks, now)]
    /\ admitted' = Admit(admitted, reqs[1].user.userId, now)
    /\ UNCHANGED <<now, ticks, env, users, tasks, nextId, issued, prev, userRequests>>

RouteTick ==
    /\ ticks < MaxTicks
    /\ Advance({1})

InitRoutes ==
    /\ InitCommon
    /\ env = [JWT_SECRET |-> "unset", JWT_EXPIRES_IN |-> "unset"]
    /\ users = {UserDoc("u1", "ann", "ann@x.com", "h1", 0),
                UserDoc("u2", "bob", "bob@x.com", "h2", 0)}

NextRoutes == RouteIssue \/ RouteRequest \/ RouteAuthenticate \/ RouteHandler \/ RouteTick

SpecRoutes == InitRoutes /\ [][NextRoutes]_vars

-----------------------------------------------------------------------------
(* Specification of the validators in front of the task handlers *)

LongTitle == Str("long", 101, 0)

ValidateTitles ==
    {Absent, Null, Str("", 0, 0), Str("", 0, 2), Str("t", 1, 1), Str("long", 100, 2),
     LongTitle}

(* a body that breaks the rule of four fields at once *)
AllWrong ==
    TaskBody(Str("", 0, 0), Absent, Str("yes", 3, 0), Str("urgent", 6, 0),
             DateV(5, FALSE), FALSE)

ValidatePosts ==
    {TaskBody(title, Absent, Absent, Absent, Absent, FALSE) : title \in ValidateTitles}
      \cup {AllWrong,
            TaskBody(LongTitle, Absent, Absent, Absent, Absent, TRUE),
            TaskBody(Str("t", 1, 0), Absent, Absent, Absent, Absent, TRUE)}

NothingNamed == TaskBody(Absent, Absent, Absent, Absent, Absent, FALSE)
OnlyUnknown == TaskBody(Absent, Absent, Absent, Absent, Absent, TRUE)

ValidatePuts ==
    {NothingNamed, OnlyUnknown, Completion,
     TaskBody(Absent, Absent, Bool(TRUE), Absent, Absent, TRUE),
     TaskBody(Str("", 0, 1), Absent, Absent, Str("urgent", 6, 0), Absent, FALSE)}

(* twelve characters, and twenty-four that are not all hexadecimal *)
TwelveChars == [kind |-> "id", n |-> 0, len |-> 12, hex |-> FALSE]
NotHex == [kind |-> "id", n |-> 0, len |-> 24, hex |-> FALSE]
ValidateIds == {Oid(1), BadId, TwelveChars, NotHex}

ValidateQueries ==
    {EmptyQuery,
     TaskQuery(Absent, Absent, Absent, Absent, TRUE),
     TaskQuery(Str("false", 5, 0), Str("alta", 4, 0), Absent, Absent, FALSE),
     TaskQuery(Str("maybe", 5, 0), Absent, Str("size", 4, 0), Absent, FALSE),
     TaskQuery(Absent, Str("urgent", 6, 0), Absent, Str("up", 2, 0), TRUE)}

ValidateShapes ==
    {[route |-> "GET /api/tasks", body |-> NoBody, id |-> NoId, query |-> query] :
        query \in ValidateQueries}
      \cup {[route |-> "POST /api/tasks", body |-> body, id |-> NoId, query |-> NoQuery] :
               body \in ValidatePosts}
      \cup {[route |-> "PUT /api/tasks/:id", body |-> body, id |-> id, query |-> NoQuery] :
               body \in ValidatePuts, id \in ValidateIds}
      \cup {[route |-> route, body |-> NoBody, id |-> id, query |-> NoQuery] :
               route \in {"GET /api/tasks/:id", "DELETE /api/tasks/:id"},
               id \in ValidateIds}

ValidateRequest ==
    \E shape \in ValidateShapes, header \in {NoHeader} \cup {Header(BearerSp, tok) :
                                                              tok \in IssuedTokens} :
        /\ (shape.route = "POST /api/tasks" => nextId <= MaxTasks)
        /\ NewRequest(1, shape.route, header, shape.body, shape.id, shape.query)

ValidateIssue == \E user \in users : IssueToken(user)

ValidateAuthenticate == AuthenticateToken(1)

ValidateStep ==
    \/ ValidateTaskQueryFilters(1)
    \/ ValidateMongoId(1)
    \/ ValidateCreateTask(1)
    \/ ValidateUpdateTask(1)

ValidateHandler ==
    \/ GetAllTasks(1)
    \/ GetTaskById(1)
    \/ CreateTask(1)
    \/ SaveTask(1)
    \/ UpdateTask(1)
    \/ DeleteTask(1)

InitValidate ==
    /\ InitCommon
    /\ env = [JWT_SECRET |-> "unset", JWT_EXPIRES_IN |-> "unset"]
    /\ users = {UserDoc("u1", "ann", "ann@x.com", "h1", 0)}

NextValidate ==
    ValidateRequest \/ ValidateIssue \/ ValidateAuthenticate \/ ValidateStep
      \/ ValidateHandler

SpecValidate == InitValidate /\ [][NextValidate]_vars

-----------------------------------------------------------------------------
(* Specification of the stored tasks: create, update, read, the document   *)
(* methods, and the clock                                                  *)

(* markAsCompleted(): completed = true, updatedAt = new Date(), save()     *)
(* with the pre-save hook                                                  *)
markAsCompleted(task, t) == [task EXCEPT !.completed = Bool(TRUE), !.updatedAt = t]

(* a markAsPending that stores the document anew *)
markAsPendingAnew(task, t) ==
    [task EXCEPT !.completed = Bool(FALSE), !.createdAt = t, !.updatedAt = t]

(* markAsPending() *)
markAsPending(task, t) == [task EXCEPT !.completed = Bool(FALSE), !.updatedAt = t]

FullTask ==
    TaskBody(Str("t1", 2, 1), Str("d", 1, 0), Absent, Str("alta", 4, 0), DateV(5, TRUE),
             FALSE)
Retitle == TaskBody(Str("t2", 2, 0), Absent, Absent, Absent, Absent, TRUE)

StoreShapes ==
    {[route |-> "POST /api/tasks", body |-> body, id |-> NoId, query |-> NoQuery] :
        body \in {NewTask, FullTask}}
      \cup {[route |-> "PUT /api/tasks/:id", body |-> body, id |-> Oid(n), query |-> NoQuery] :
               body \in {Completion, Retitle}, n \in 1..MaxStored}
      \cup {[route |-> "GET /api/tasks/:id", body |-> NoBody, id |-> Oid(n),
             query |-> NoQuery] : n \in 1..MaxStored}

NoCreation == [res |-> NoResponse, why |-> "none"]
Mutated == [res |-> NoResponse, why |-> "mutated"]

(* the response of the request the client has just finished, when it       *)
(* created a task; `prev` holds it while the next request runs, unless a   *)
(* document method has touched the store since                             *)
JustCreated(r) ==
    IF OnRoute(r, "POST /api/tasks")
    THEN IF r.state = "responded" /\ r.res[1].status = 201
         THEN [res |-> r.res[1], why |-> "created"]
         ELSE NoCreation
    ELSE NoCreation

StoreRequest ==
    \E shape \in StoreShapes, tok \in IssuedTokens :
        /\ (shape.route = "POST /api/tasks" => nextId <= MaxStored)
        /\ Submit(1, [NewReq(shape.route, Header(BearerSp, tok), NoUser, shape.body)
                        EXCEPT !.id = shape.id],
                  IF prev = Mutated THEN NoCreation ELSE JustCreated(reqs[1]))

StoreIssue == \E user \in users : IssueToken(user)

StoreMiddleware ==
    \/ AuthenticateToken(1)
    \/ ValidateMongoId(1)
    \/ ValidateCreateTask(1)
    \/ ValidateUpdateTask(1)

StoreHandler ==
    \/ GetTaskById(1)
    \/ CreateTask(1)
    \/ SaveTask(1)
    \/ UpdateTask(1)

MarkTask(after) ==
    /\ tasks' = after
    /\ prev' = Mutated
    /\ UNCHANGED <<now, ticks, env, users, nextId, issued, reqs, userRequests, admitted>>

MarkAsCompleted ==
    \E task \in tasks : MarkTask((tasks \ {task}) \cup {markAsCompleted(task, now)})

MarkAsPending ==
    \E task \in tasks : MarkTask((tasks \ {task}) \cup {markAsPending(task, now)})

StoreTick ==
    /\ ticks < MaxTicks
    /\ Advance({1})

InitStore ==
    /\ InitCommon
    /\ env = [JWT_SECRET |-> "unset", JWT_EXPIRES_IN |-> "unset"]
    /\ users = {UserDoc("u1", "ann", "ann@x.com", "h1", 0)}

NextStore ==
    StoreRequest \/ StoreIssue \/ StoreMiddleware \/ StoreHandler \/ MarkAsCompleted
      \/ MarkAsPending \/ StoreTick

SpecStore == InitStore /\ [][NextStore]_vars

-----------------------------------------------------------------------------
(* Specification of the reads: the list with its filters and its order,    *)
(* one task, the statistics, over a collection that already holds tasks    *)

PriorityOf(i) ==
    CASE i % 3 = 1 -> Str("alta", 4, 0)
      [] i % 3 = 2 -> Str("media", 5, 0)
      [] OTHER -> Str("baja", 4, 0)

(* the i-th task of a collection filled at the clock readings 0, 1, ..: of *)
(* three tasks in a row one has each priority and the third is completed   *)
SampleTask(i) ==
    TaskDoc(Oid(i),
            TaskBody(IF i % 2 = 1 THEN Str("t1", 2, 0) ELSE Str("t2", 2, 0),
                     Str("", 0, 0), Bool(i % 3 = 0), PriorityOf(i),
                     IF i % 2 = 0 THEN Null ELSE DateV(2 * i, TRUE), FALSE),
            i - 1, i - 1)

SampleStore(k) == {SampleTask(i) : i \in 1..k}

ListQueries ==
    {EmptyQuery,
     TaskQuery(Str("false", 5, 0), Absent, Absent, Absent, FALSE),
     TaskQuery(Str("false", 5, 0), Str("alta", 4, 0), Absent, Absent, FALSE),
     TaskQuery(Absent, Absent, Str("title", 5, 0), Str("asc", 3, 0), FALSE),
     TaskQuery(Absent, Absent, Str("priority", 8, 0), Absent, FALSE),
     TaskQuery(Absent, Absent, Absent, Str("asc", 3, 0), FALSE),
     TaskQuery(Str("true", 4, 0), Absent, Str("dueDate", 7, 0), Str("desc", 4, 0), FALSE),
     TaskQuery(Absent, Absent, Str("size", 4, 0), Absent, FALSE),
     TaskQuery(Absent, Absent, Str("title", 5, 0), Str("up", 2, 0), FALSE)}

ListShapes ==
    {[route |-> "GET /api/tasks", id |-> NoId, query |-> query] : query \in ListQueries}
      \cup {[route |-> "GET /api/tasks/stats", id |-> NoId, query |-> NoQuery]}
      \cup {[route |-> "GET /api/tasks/:id", id |-> Oid(1), query |-> NoQuery]}

(* the answer of the list request the client has just finished, with the   *)
(* query it was sent with                                                  *)
JustListed(r) ==
    IF OnRoute(r, "GET /api/tasks")
    THEN IF r.state = "responded" /\ r.res[1].status = 200
         THEN [res |-> r.res[1], why |-> "listed", query |-> r.sent.query]
         ELSE NoCreation
    ELSE NoCreation

ListRequest ==
    \E shape \in ListShapes, tok \in IssuedTokens :
        Submit(1, [NewReq(shape.route, Header(BearerSp, tok), NoUser, NoBody)
                     EXCEPT !.id = shape.id, !.query = shape.query,
                            !.sent.query = shape.query],
               IF prev = Mutated THEN NoCreation ELSE JustListed(reqs[1]))

ListMiddleware ==
    \/ AuthenticateToken(1)
    \/ ValidateTaskQueryFilters(1)
    \/ ValidateMongoId(1)

ListHandler ==
    \/ GetAllTasks(1)
    \/ GetTaskById(1)
    \/ GetTaskStats(1)

ListMarkAsCompleted ==
    \E task \in tasks :
        /\ task.id.n <= MaxMarked
        /\ MarkTask((tasks \ {task}) \cup {markAsCompleted(task, now)})

ListMarkAsPending ==
    \E task \in tasks :
        /\ task.id.n <= MaxMarked
        /\ MarkTask((tasks \ {task}) \cup {markAsPending(task, now)})

ListTick ==
    /\ ticks < MaxTicks
    /\ Advance({1})

InitList ==
    \E k \in 0..MaxListed :
        /\ now = k
        /\ ticks = 0
        /\ tasks = SampleStore(k)
        /\ nextId = k + 1
        /\ env = [JWT_SECRET |-> "unset", JWT_EXPIRES_IN |-> "unset"]
        /\ users = {UserDoc("u1", "ann", "ann@x.com", "h1", 0)}
        /\ issued = {[tok |-> generateToken("u1", "ann", env, 0), userId |-> "u1",
                      username |-> "ann"]}
        /\ reqs = [c \in Clients |-> Idle]
        /\ prev = NoCreation
        /\ userRequests = [u \in UserIds |-> NoRecord]
        /\ admitted = [u \in UserIds |-> NoWindow]

NextList ==
    ListRequest \/ ListMiddleware \/ ListHandler \/ ListMarkAsCompleted
      \/ ListMarkAsPending \/ ListTick

SpecList == InitList /\ [][NextList]_vars

-----------------------------------------------------------------------------
(* Specification of the statistics: one client asks for them while another *)
(* creates, updates and deletes tasks                                      *)

WriterShapes ==
    {[route |-> "POST /api/tasks", body |-> NewTask, id |-> NoId]}
      \cup {[route |-> "PUT /api/tasks/:id", body |-> Completion, id |-> Oid(n)] :
               n \in 1..MaxMarked}
      \cup {[route |-> "DELETE /api/tasks/:id", body |-> NoBody, id |-> Oid(n)] :
               n \in 1..MaxMarked}

StatsRequest ==
    \E tok \in IssuedTokens :
        Submit(1, NewReq("GET /api/tasks/stats", Header(BearerSp, tok), NoUser, NoBody),
               prev)

WriterRequest ==
    \E shape \in WriterShapes, tok \in IssuedTokens :
        /\ (shape.route = "POST /api/tasks" => nextId <= MaxListed)
        /\ Submit(2, [NewReq(shape.route, Header(BearerSp, tok), NoUser, shape.body)
                        EXCEPT !.id = shape.id],
                  prev)

StatsMiddleware ==
    \/ \E c \in Clients : AuthenticateToken(c)
    \/ ValidateMongoId(2)
    \/ ValidateCreateTask(2)
    \/ ValidateUpdateTask(2)

StatsHandler ==
    \/ GetTaskStats(1)
    \/ CreateTask(2)
    \/ SaveTask(2)
    \/ UpdateTask(2)
    \/ DeleteTask(2)

StatsTick ==
    /\ ticks < MaxStatTicks
    /\ Advance({1})

NextStats == StatsRequest \/ WriterRequest \/ StatsMiddleware \/ StatsHandler \/ StatsTick

SpecStats == InitList /\ [][NextStats]_vars

-----------------------------------------------------------------------------
(* Specification of two callers, each with a token of its own, who create, *)
(* read, update and delete the same tasks                                  *)

(* the caller behind each client *)
CallerOf(c) == IF c = 1 THEN "u1" ELSE "u2"

SharedShapes ==
    {[route |-> "POST /api/tasks", body |-> NewTask, id |-> NoId]}
      \cup {[route |-> "PUT /api/tasks/:id", body |-> Completion, id |-> Oid(n)] :
               n \in 1..MaxStored}
      \cup {[route |-> route, body |-> NoBody, id |-> Oid(n)] :
               route \in {"GET /api/tasks/:id", "DELETE /api/tasks/:id"},
               n \in 1..MaxStored}
      \cup {[route |-> route, body |-> NoBody, id |-> NoId] :
               route \in {"GET /api/tasks", "GET /api/tasks/stats"}}

(* the answer of the last delete a client has seen succeed and moved on    *)
(* from                                                                    *)
JustDeleted(r) ==
    IF OnRoute(r, "DELETE /api/tasks/:id")
    THEN IF r.state = "responded" /\ r.res[1].status = 200
         THEN [res |-> r.res[1], why |-> "deleted"]
         ELSE prev
    ELSE prev

SharedRequest ==
    \E c \in Clients, shape \in SharedShapes, rec \in issued :
        /\ rec.userId = CallerOf(c)
        /\ (shape.route = "POST /api/tasks" => nextId <= MaxStored + 1)
        /\ Submit(c, [NewReq(shape.route, Header(BearerSp, rec.tok), NoUser, shape.body)
                        EXCEPT !.id = shape.id,
                               !.query = IF shape.route = "GET /api/tasks"
                                         THEN EmptyQuery ELSE NoQuery,
                               !.sent.query = IF shape.route = "GET /api/tasks"
                                              THEN EmptyQuery ELSE NoQuery],
                  JustDeleted(reqs[c]))

SharedMiddleware ==
    \E c \in Clients :
        \/ AuthenticateToken(c)
        \/ ValidateMongoId(c)
        \/ ValidateCreateTask(c)
        \/ ValidateUpdateTask(c)
        \/ ValidateTaskQueryFilters(c)

SharedHandler ==
    \E c \in Clients :
        \/ GetAllTasks(c)
        \/ GetTaskStats(c)
        \/ GetTaskById(c)
        \/ CreateTask(c)
        \/ SaveTask(c)
        \/ UpdateTask(c)
        \/ DeleteTask(c)

(* both callers have logged in *)
InitShared ==
    /\ now = 0
    /\ ticks = 0
    /\ tasks = {}
    /\ nextId = 1
    /\ env = [JWT_SECRET |-> "unset", JWT_EXPIRES_IN |-> "unset"]
    /\ users = {UserDoc("u1", "ann", "ann@x.com", "h1", 0),
                UserDoc("u2", "bob", "bob@x.com", "h2", 0)}
    /\ issued = {[tok |-> generateToken(user.id, user.username, env, 0),
                  userId |-> user.id, username |-> user.username] : user \in users}
    /\ reqs = [c \in Clients |-> Idle]
    /\ prev = NoCreation
    /\ userRequests = [u \in UserIds |-> NoRecord]
    /\ admitted = [u \in UserIds |-> NoWindow]

NextShared == SharedRequest \/ SharedMiddleware \/ SharedHandler

SpecShared == InitShared /\ [][NextShared]_vars

-----------------------------------------------------------------------------
(* Properties of the rate limiter *)

Rejected429(r) ==
    /\ IsReq(r)
    /\ r.state = "responded"
    /\ r.res = <<TooManyRequests>>
    /\ r.nexts = 0

PassedOn(r) ==
    /\ IsReq(r)
    /\ r.state = "passed"
    /\ r.res = <<>>
    /\ r.nexts = 1

(* C7: the first call of an identity after its window has expired is       *)
(* passed on and resets that identity's record to count = 1 with a window  *)
(* of 60 s starting at that call, whatever the record held before; a step  *)
(* that is no call of the limiter (the clock moving on) leaves every       *)
(* record as it was.                                                       *)
C7_LazyReset ==
    /\ [][\A user \in LimiterUsers \ {NoUser} :
            ( /\ CallUserRateLimit(1, user)
              /\ userRequests[user.userId] # NoRecord
              /\ now > userRequests[user.userId].resetTime )
            => ( /\ PassedOn(reqs'[1])
                 /\ userRequests'[user.userId] = RateRecord(1, now + windowMs) )]_vars
    /\ [][now' # now => userRequests' = userRequests]_vars

(* C7 witness: an identity that filled its window and was rejected has had *)
(* its record reset by a call made after the window ran out.               *)
C7_Witness ==
    /\ prev.res = TooManyRequests
    /\ PassedOn(reqs[1])
    /\ reqs[1].user # NoUser
    /\ reqs[1].user.userId = "u1"
    /\ userRequests["u1"] = RateRecord(1, now + windowMs)
    /\ now > windowMs

(* C8: the limiter never rejects falsely and counts per identity. The      *)
(* record of an identity always equals the ground truth of that identity   *)
(* (requests admitted in its current window, and that window's end), so    *)
(* calls of other identities, rejected calls and calls without identity    *)
(* do not move it; the stored count never exceeds 100; and a call is       *)
(* rejected only when 100 requests of the same identity were admitted in   *)
(* the window that is still open.                                          *)
C8_Records ==
    \A u \in UserIds :
        IF userRequests[u] = NoRecord
        THEN admitted[u] = NoWindow
        ELSE /\ admitted[u] # NoWindow
             /\ userRequests[u].count = admitted[u].n
             /\ userRequests[u].resetTime = admitted[u].since + windowMs
             /\ userRequests[u].count <= maxRequestsPerMinute

C8_NoFalseReject ==
    /\ []C8_Records
    /\ [][\A user \in LimiterUsers :
            ( CallUserRateLimit(1, user) /\ reqs'[1].state = "responded" )
            => ( /\ user # NoUser
                 /\ Rejected429(reqs'[1])
                 /\ admitted[user.userId] # NoWindow
                 /\ admitted[user.userId].n >= maxRequestsPerMinute
                 /\ now <= admitted[user.userId].since + windowMs
                 /\ userRequests' = userRequests )]_vars

(* C8 witness: the first identity is rejected at its cap while the second  *)
(* identity holds a record of its own and the caller before had none.      *)
C8_Witness ==
    /\ Rejected429(reqs[1])
    /\ reqs[1].user.userId = "u1"
    /\ userRequests["u1"].count = maxRequestsPerMinute
    /\ userRequests["u2"] # NoRecord
    /\ userRequests["u2"].count = 1

-----------------------------------------------------------------------------
(* Properties of token issue and verification *)

ExpiredMessage == "El token ha expirado. Por favor, inicia sesion nuevamente"

(* the request was answered 401 by the verification callback, with `message` *)
AuthRejected(r, message) ==
    /\ r.state = "responded"
    /\ r.res = <<Response(401, "Autenticacion fallida", message)>>
    /\ r.nexts = 0
    /\ r.user = NoUser

(* C2: a token generateToken produced, presented as Bearer credential at a *)
(* time inside its validity window (clock in whole seconds below exp), is  *)
(* accepted by authenticateToken: next is called, nothing is sent, and     *)
(* req.user carries the user id and the username the token was issued      *)
(* for. The secret is unset in some runs and set in others.                *)
C2_VerifyInWindow ==
    [][\A rec \in issued :
         ( /\ AuthenticateToken(1)
           /\ reqs[1].header = Header(BearerSp, rec.tok)
           /\ (now \div 1000) < rec.tok.payload.exp )
         => ( /\ reqs'[1].res = <<>>
              /\ reqs'[1].nexts = 1
              /\ reqs'[1].user # NoUser
              /\ reqs'[1].user.userId = rec.userId
              /\ reqs'[1].user.username = rec.username
              /\ reqs'[1].user.iat = rec.tok.payload.iat
              /\ reqs'[1].user.exp = rec.tok.payload.exp )]_vars

(* C2 witness: with JWT_SECRET unset, a token issued for bob was accepted  *)
(* in the last millisecond of its life and the handler is about to run.    *)
C2_Witness ==
    /\ env.JWT_SECRET = "unset"
    /\ IsReq(reqs[1])
    /\ reqs[1].route = "GET /api/auth/verify"
    /\ reqs[1].state = "running"
    /\ reqs[1].pc = 2
    /\ reqs[1].user # NoUser
    /\ reqs[1].user.userId = "u2"
    /\ reqs[1].user.username = "bob"
    /\ \E rec \in issued : reqs[1].header = Header(BearerSp, rec.tok)
    /\ now = reqs[1].user.exp * 1000 - 1
    /\ now > 0

(* C3: an issued token presented to authenticateToken is rejected with the *)
(* expired-specific message exactly when the clock (in whole seconds) has  *)
(* reached its exp, and is not rejected before; once expired it stays      *)
(* expired, as the clock never runs back and nothing revokes or renews a   *)
(* token.                                                                  *)
C3_ExpiredAfterExpiry ==
    /\ [][\A rec \in issued :
            ( AuthenticateToken(1) /\ reqs[1].header = Header(BearerSp, rec.tok) )
            => IF (now \div 1000) >= rec.tok.payload.exp
               THEN /\ AuthRejected(reqs'[1], ExpiredMessage)
                    /\ reqs'[1].jwtError = "jwt expired"
               ELSE /\ reqs'[1].res = <<>>
                    /\ reqs'[1].nexts = 1]_vars
    /\ [][\A rec \in issued :
            /\ rec \in issued'
            /\ ((now \div 1000) >= rec.tok.payload.exp
                  => (now' \div 1000) >= rec.tok.payload.exp)]_vars

(* C3 witness: a token with a real lifetime was rejected as expired at the *)
(* first millisecond of the second in which it expires.                    *)
C3_Witness ==
    /\ IsReq(reqs[1])
    /\ reqs[1].route \in ProtectedRoutes
    /\ AuthRejected(reqs[1], ExpiredMessage)
    /\ \E rec \in issued :
          /\ reqs[1].header = Header(BearerSp, rec.tok)
          /\ rec.tok.payload.exp > rec.tok.payload.iat
          /\ now = rec.tok.payload.exp * 1000

(* The last two rejections by the verification callback *)
TwoAuthRejections ==
    /\ IsReq(reqs[1])
    /\ reqs[1].route \in ProtectedRoutes
    /\ reqs[1].state = "responded"
    /\ reqs[1].jwtError # "none"
    /\ prev.why # "none"

ErrorNameOf(why) ==
    CASE why = "jwt expired" -> "TokenExpiredError"
      [] why = "jwt not active" -> "NotBeforeError"
      [] OTHER -> "JsonWebTokenError"

C5_OptionalNeverRejects ==
    /\ [](\A c \in Clients :
            (IsReq(reqs[c]) /\ reqs[c].route = "direct:optionalAuth")
            => /\ reqs[c].res = <<>>
               /\ reqs[c].state # "responded"
               /\ (reqs[c].state = "passed" => reqs[c].nexts = 1)
               /\ (reqs[c].state = "running" => reqs[c].nexts = 0 /\ reqs[c].user = NoUser)
               /\ (reqs[c].user # NoUser
                     => /\ reqs[c].header # NoHeader
                        /\ reqs[c].header.pre = BearerSp
                        /\ reqs[c].header.cred.kind = "jwt"
                        /\ reqs[c].header.cred.key = SecretOf(env)
                        /\ reqs[c].user = reqs[c].header.cred.payload))
    /\ [][OptionalAuth(1) =>
            ( reqs'[1].user # NoUser
                <=> ( /\ reqs[1].header # NoHeader
                      /\ reqs[1].header.pre = BearerSp
                      /\ reqs[1].header.cred.kind = "jwt"
                      /\ reqs[1].header.cred.key = SecretOf(env)
                      /\ (reqs[1].header.cred.payload.nbf = NoTime
                            \/ reqs[1].header.cred.payload.nbf <= (now \div 1000))
                      /\ (reqs[1].header.cred.payload.exp = NoTime
                            \/ (now \div 1000) < reqs[1].header.cred.payload.exp) ) )]_vars

(* C5 witness: a request carrying an expired issued token went through     *)
(* optionalAuth unauthenticated.                                           *)
C5_Witness ==
    /\ IsReq(reqs[1])
    /\ reqs[1].route = "direct:optionalAuth"
    /\ reqs[1].state = "passed"
    /\ reqs[1].nexts = 1
    /\ reqs[1].res = <<>>
    /\ reqs[1].user = NoUser
    /\ reqs[1].jwtError = "jwt expired"
    /\ \E rec \in issued : reqs[1].header = Header(BearerSp, rec.tok)

-----------------------------------------------------------------------------
(* Properties of the gate *)

NoHeaderRequest(r) ==
    IF IsReq(r) THEN r.route \in ProtectedRoutes /\ r.header = NoHeader ELSE FALSE

-----------------------------------------------------------------------------
(* Properties of the mounted routes *)

(* C6 as claimed: of the authenticated requests of one user id to the API, *)
(* at most 100 reach the handler within one 60 s window.                   *)
C6_AtMost100PerWindow ==
    \A u \in UserIds :
        IF admitted[u] = NoWindow THEN TRUE
        ELSE admitted[u].n <= maxRequestsPerMinute

-----------------------------------------------------------------------------
(* Properties of registration *)

RegisterRunning(r, at) ==
    IF IsReq(r)
    THEN r.route = "POST /api/auth/register" /\ r.state = "running" /\ r.pc = 2
         /\ r.hpc = at
    ELSE FALSE

UsernameStored(username) == \E user \in users : user.username = username
EmailStored(email) == \E user \in users : user.email = email

(* C9: when registerUser looks up a username that a stored user has, it    *)
(* answers 409 'Usuario ya existe'; when the username is free and the      *)
(* e-mail is one a stored user has, it answers 409 'Email ya registrado'.  *)
(* Either step leaves the users as they were and issues no token; the      *)
(* handler sees the body trimmed and lower-cased by the validator, and     *)
(* nothing ever removes a user, so a taken name stays taken.               *)
C9_TakenIsConflict ==
    /\ [][\A c \in Clients :
            /\ ( ( /\ RegisterRunning(reqs[c], "start")
                   /\ UsernameStored(reqs[c].body.username)
                   /\ reqs'[c] # reqs[c] )
                 => /\ reqs'[c] = Send(reqs[c], UsernameConflict)
                    /\ reqs'[c].res[1].status = 409
                    /\ users' = users
                    /\ issued' = issued )
            /\ ( ( /\ RegisterRunning(reqs[c], "checkEmail")
                   /\ EmailStored(reqs[c].body.email)
                   /\ reqs'[c] # reqs[c] )
                 => /\ reqs'[c] = Send(reqs[c], EmailConflict)
                    /\ reqs'[c].res[1].status = 409
                    /\ users' = users
                    /\ issued' = issued )]_vars
    /\ [][users \subseteq users']_vars
    /\ [](\A c \in Clients :
            (IF IsReq(reqs[c]) THEN reqs[c].route = "POST /api/auth/register" /\ reqs[c].pc = 2
             ELSE FALSE)
            => /\ reqs[c].body.username.pad = 0
               /\ reqs[c].body.email.pad = 0
               /\ ~reqs[c].body.email.caps)

(* C9 witness: a registration with a free username and an e-mail that is   *)
(* stored was answered 409 'Email ya registrado'; one user, one token.     *)
C9_Witness ==
    /\ IsReq(reqs[2])
    /\ reqs[2].route = "POST /api/auth/register"
    /\ reqs[2].res = <<EmailConflict>>
    /\ EmailStored(reqs[2].body.email)
    /\ ~UsernameStored(reqs[2].body.username)
    /\ Cardinality(users) = 1
    /\ Cardinality(issued) = 1

(* C10: no two stored users share a username or an e-mail, however the     *)
(* steps of two registrations interleave.                                  *)
C10_UniqueUsers ==
    \A u1 \in users, u2 \in users :
        u1 # u2 => (u1.username # u2.username /\ u1.email # u2.email)

(* C10 witness: both registrations passed both look-ups before either      *)
(* insert; the first insert succeeded and the second was refused.          *)
C10_Witness ==
    /\ IsReq(reqs[1])
    /\ IsReq(reqs[2])
    /\ reqs[1].route = "POST /api/auth/register"
    /\ reqs[2].route = "POST /api/auth/register"
    /\ reqs[1].hpc = "save"
    /\ reqs[2].hpc = "save"
    /\ reqs[1].body.username = reqs[2].body.username
    /\ reqs[1].state = "responded"
    /\ reqs[2].state = "responded"
    /\ reqs[1].res[1].status = 201
    /\ reqs[2].res = <<RegistrationFailed>>
    /\ Cardinality(users) = 1

(* the insert of the request held by client c was refused by a unique      *)
(* index: the body passed the schema's validators, registerUser got as far *)
(* as save, and no user was created for it                                 *)
InsertRefused(r) ==
    IF IsReq(r)
    THEN /\ r.route = "POST /api/auth/register"
         /\ r.state = "responded"
         /\ r.hpc = "save"
         /\ ~SchemaInvalid(NewUser(Oid(0), r.body, 0))
         /\ r.res[1].status # 201
    ELSE FALSE

(* C11 as claimed: a registration whose insert is refused for a duplicate  *)
(* key is answered with a conflict (409) or a validation error (400),      *)
(* never with the generic internal error.                                  *)
C11_DuplicateKeyIsConflict ==
    \A c \in Clients :
        InsertRefused(reqs[c])
        => /\ reqs[c].res[1].status \in {400, 409}
           /\ reqs[c].res[1] # RegistrationFailed

-----------------------------------------------------------------------------
(* Properties of the task validators *)

(* the fields named in the details of the one response of a request *)
DetailFields(r) == {r.res[1].details[i].field : i \in 1..Len(r.res[1].details)}

(* the request was answered 400 by the middleware at position `pos` *)
Answered400At(r, pos) ==
    /\ r.state = "responded"
    /\ r.pc = pos
    /\ Len(r.res) = 1
    /\ r.res[1].status = 400

(* a title that is missing, not a string, or of length 0 or above 100 once *)
(* trimmed                                                                 *)
BadTitle(v) == IF v.kind = "str" THEN v.len = 0 \/ v.len > 100 ELSE TRUE

(* C12: a POST /api/tasks whose title is missing or, trimmed, has length 0 *)
(* or more than 100 never gets past validateCreateTask: the validator      *)
(* answers 400 with an entry for `title`, createTask is not started (no    *)
(* document is built) and no step of the request changes the tasks.        *)
C12_BadTitleRejected ==
    /\ [](\A c \in Clients :
            (OnRoute(reqs[c], "POST /api/tasks") /\ BadTitle(reqs[c].sent.body.title))
            => /\ reqs[c].pc <= 2
               /\ reqs[c].doc = NoDoc
               /\ reqs[c].hpc = "start"
               /\ (reqs[c].pc = 2 /\ reqs[c].state # "running"
                     => /\ Answered400At(reqs[c], 2)
                        /\ "title" \in DetailFields(reqs[c])))
    /\ [][\A c \in Clients :
            ( /\ OnRoute(reqs[c], "POST /api/tasks")
              /\ BadTitle(reqs[c].sent.body.title)
              /\ reqs[c].state = "running" )
            => (tasks' = tasks /\ nextId' = nextId)]_vars

(* C12 witness: an authenticated POST with a title of 101 characters was   *)
(* answered 400 with a `title` entry.                                      *)
C12_Witness ==
    /\ OnRoute(reqs[1], "POST /api/tasks")
    /\ reqs[1].sent.body.title = LongTitle
    /\ reqs[1].user # NoUser
    /\ Answered400At(reqs[1], 2)
    /\ "title" \in DetailFields(reqs[1])

AtLeastOneField == FieldError("", "Debe proporcionar al menos un campo para actualizar")

NamesNothing(b) ==
    /\ b.title = Absent
    /\ b.description = Absent
    /\ b.completed = Absent
    /\ b.priority = Absent
    /\ b.dueDate = Absent

(* C13: a PUT /api/tasks/:id whose body names no field of the schema (the  *)
(* empty object, or unknown keys only) never gets past validateUpdateTask: *)
(* the validator answers 400 with exactly one entry, the 'at least one     *)
(* field' error; updateTask does not run and no step of the request        *)
(* changes the tasks.                                                      *)
C13_NothingToUpdate ==
    /\ [](\A c \in Clients :
            (OnRoute(reqs[c], "PUT /api/tasks/:id") /\ NamesNothing(reqs[c].sent.body))
            => /\ reqs[c].pc <= 3
               /\ (reqs[c].pc = 3 /\ reqs[c].state # "running"
                     => /\ Answered400At(reqs[c], 3)
                        /\ reqs[c].res[1].details = <<AtLeastOneField>>))
    /\ [][\A c \in Clients :
            ( /\ OnRoute(reqs[c], "PUT /api/tasks/:id")
              /\ NamesNothing(reqs[c].sent.body)
              /\ reqs[c].state = "running" )
            => tasks' = tasks]_vars

(* C13 witness: a PUT for a stored task with unknown keys only was         *)
(* answered 400 with the single error.                                     *)
C13_Witness ==
    /\ OnRoute(reqs[1], "PUT /api/tasks/:id")
    /\ reqs[1].sent.body = OnlyUnknown
    /\ \E task \in tasks : task.id = reqs[1].id
    /\ Answered400At(reqs[1], 3)
    /\ reqs[1].res[1].details = <<AtLeastOneField>>

(* the fields of a task body that break a rule of the schema *)
ViolatedTaskFields(b, titleRequired) ==
    {f \in {"title"} : TitleErrors(Trim(b.title), titleRequired) # <<>>}
      \cup {f \in {"description"} : DescriptionErrors(Trim(b.description)) # <<>>}
      \cup {f \in {"completed"} : CompletedErrors(b.completed) # <<>>}
      \cup {f \in {"priority"} : PriorityErrors(b.priority) # <<>>}
      \cup {f \in {"dueDate"} : DueDateErrors(b.dueDate) # <<>>}

(* the keys of a query that break a rule of querySchema *)
ViolatedQueryKeys(q) ==
    {f \in {"completed"} : CompletedErrors(q.completed) # <<>>}
      \cup {f \in {"priority"} : PriorityErrors(q.priority) # <<>>}
      \cup {f \in {"sortBy"} :
              IF q.sortBy = Absent THEN FALSE
              ELSE ~(q.sortBy.kind = "str" /\ q.sortBy.core \in SortKeys /\ q.sortBy.pad = 0)}
      \cup {f \in {"order"} :
              IF q.order = Absent THEN FALSE
              ELSE ~(q.order.kind = "str" /\ q.order.core \in {"asc", "desc"}
                     /\ q.order.pad = 0)}

(* the fields of a registration that break a rule of createUserSchema *)
ViolatedUserFields(b) ==
    {f \in {"username"} : UsernameErrors(Trim(b.username)) # <<>>}
      \cup {f \in {"email"} : EmailErrors(b.email) # <<>>}
      \cup {f \in {"password"} : PasswordErrors(b.password) # <<>>}

(* C14 as claimed: whichever validator answers 400, its details name every *)
(* field of the input that breaks a rule: task-create, task-update,        *)
(* query-filter and user-register alike.                                   *)
C14_CollectAll ==
    \A c \in Clients :
        /\ (OnRoute(reqs[c], "POST /api/tasks") /\ Answered400At(reqs[c], 2)
              => ViolatedTaskFields(reqs[c].sent.body, TRUE) \subseteq DetailFields(reqs[c]))
        /\ (OnRoute(reqs[c], "PUT /api/tasks/:id") /\ Answered400At(reqs[c], 3)
              => ViolatedTaskFields(reqs[c].sent.body, FALSE) \subseteq DetailFields(reqs[c]))
        /\ (OnRoute(reqs[c], "GET /api/tasks") /\ Answered400At(reqs[c], 2)
              => ViolatedQueryKeys(reqs[c].sent.query) \subseteq DetailFields(reqs[c]))
        /\ (OnRoute(reqs[c], "POST /api/auth/register") /\ Answered400At(reqs[c], 1)
              => ViolatedUserFields(reqs[c].sent.body) \subseteq DetailFields(reqs[c]))

(* the position of the handler in the chain of a route *)
HandlerAt(r) == Len(Chain(r.route))

(* C15: keys outside the schema in a POST or PUT body are dropped. They    *)
(* raise no error (a body that is valid apart from them passes its         *)
(* validator), the body a task handler works on carries none of them, and  *)
(* no stored task has the _id or the createdAt such keys would set.        *)
C15_UnknownDropped ==
    /\ [](\A c \in Clients :
            (OnRoute(reqs[c], "POST /api/tasks") \/ OnRoute(reqs[c], "PUT /api/tasks/:id"))
            => /\ (reqs[c].pc = HandlerAt(reqs[c]) => ~reqs[c].body.extra)
               /\ (reqs[c].doc # NoDoc
                     => /\ reqs[c].doc.id # Foreign.id
                        /\ reqs[c].doc.createdAt # Foreign.createdAt))
    /\ [](\A task \in tasks :
            /\ task.id # Foreign.id
            /\ task.createdAt # Foreign.createdAt
            /\ task.updatedAt # Foreign.createdAt)
    /\ [][ /\ (ValidateCreateTask(1) /\ ViolatedTaskFields(reqs[1].body, TRUE) = {}
                 => reqs'[1].state = "running" /\ reqs'[1].res = <<>>)
           /\ (ValidateUpdateTask(1) /\ ViolatedTaskFields(reqs[1].body, FALSE) = {}
                 /\ ~NamesNothing(reqs[1].body)
                 => reqs'[1].state = "running" /\ reqs'[1].res = <<>>)]_vars

(* C15 witness: a PUT that sent `completed` together with unknown keys     *)
(* updated the stored task, whose createdAt is the one of its creation.    *)
C15_Witness ==
    /\ OnRoute(reqs[1], "PUT /api/tasks/:id")
    /\ reqs[1].sent.body.extra
    /\ reqs[1].state = "responded"
    /\ reqs[1].res[1].status = 200
    /\ \E task \in tasks :
          /\ task.id = reqs[1].id
          /\ task.completed = Bool(TRUE)
          /\ task.createdAt # Foreign.createdAt

(* C16 as claimed: a GET /api/tasks whose query string holds a key outside *)
(* the schema never reaches getAllTasks; validateTaskQueryFilters answers  *)
(* it 400.                                                                 *)
C16_UnknownKeyRejected ==
    \A c \in Clients :
        (IF OnRoute(reqs[c], "GET /api/tasks") THEN reqs[c].sent.query.extra ELSE FALSE)
        => /\ reqs[c].pc <= 2
           /\ (reqs[c].pc = 2 /\ reqs[c].state # "running" => Answered400At(reqs[c], 2))

-----------------------------------------------------------------------------
(* Properties of the stored tasks *)

TaskFields == {"title", "description", "completed", "priority", "dueDate"}

(* the PUT of client c has just been answered 200 by the handler *)
UpdateSucceeded(c) ==
    /\ UpdateTask(c)
    /\ reqs'[c].state = "responded"
    /\ reqs'[c].res[1].status = 200

-----------------------------------------------------------------------------
(* Properties of the order of the steps on the task routes *)

InputValidators == {"validateCreateTask", "validateUpdateTask", "validateTaskQueryFilters"}

TaskHandlers ==
    {"getAllTasks", "getTaskStats", "getTaskById", "createTask", "updateTask", "deleteTask"}

(* the routes of routes/taskRoutes.ts *)
TaskRoutes ==
    {"GET /api/tasks", "GET /api/tasks/stats", "GET /api/tasks/:id",
     "POST /api/tasks", "PUT /api/tasks/:id", "DELETE /api/tasks/:id"}

(* the position of a step in the chain of a route, 0 when it has none *)
StepAt(route, names) ==
    IF \E i \in 1..Len(Chain(route)) : Chain(route)[i] \in names
    THEN CHOOSE i \in 1..Len(Chain(route)) : Chain(route)[i] \in names
    ELSE 0

(* authentication first, then the id check, then the body or query         *)
(* validator, and the handler last                                         *)
OrderedChain(route) ==
    LET chain == Chain(route)
        idAt == StepAt(route, {"validateMongoId"})
        inputAt == StepAt(route, InputValidators)
    IN  /\ chain[1] = "authenticateToken"
        /\ chain[Len(chain)] \in TaskHandlers
        /\ \A i \in 1..(Len(chain) - 1) : chain[i] \notin TaskHandlers
        /\ (idAt # 0 => idAt = 2)
        /\ (inputAt # 0 => inputAt > idAt /\ inputAt > 1 /\ inputAt < Len(chain))

(* the id is not made of 24 hexadecimal characters *)
IllFormedId(r) == IF r.id = NoId THEN FALSE ELSE ~(r.id.len = 24 /\ r.id.hex)

(* the body or the query, as sent, fails the schema of the route *)
FailsSchema(r) ==
    CASE r.route = "POST /api/tasks" -> ViolatedTaskFields(r.sent.body, TRUE) # {}
      [] r.route = "PUT /api/tasks/:id" ->
            ViolatedTaskFields(r.sent.body, FALSE) # {} \/ NamesNothing(r.sent.body)
      [] r.route = "GET /api/tasks" -> ViolatedQueryKeys(r.sent.query) # {}
      [] OTHER -> FALSE

(* the position of the step that must refuse the request *)
RefusedAt(r) ==
    IF IllFormedId(r) THEN StepAt(r.route, {"validateMongoId"})
    ELSE StepAt(r.route, InputValidators)

(* one step of the request of client c: it is replaced by a new request at *)
(* the head of its chain, or it moves to the next position, or it stays    *)
(* where it is (an answer, or the handler going on)                        *)
StepsInOrder(c) ==
    IF IsReq(reqs'[c]) /\ reqs'[c] # reqs[c]
    THEN \/ /\ Free(c)
            /\ reqs'[c].pc = 1
            /\ reqs'[c].state = "running"
            /\ reqs'[c].res = <<>>
         \/ /\ Running(c, Chain(reqs[c].route)[reqs[c].pc])
            /\ reqs'[c].route = reqs[c].route
            /\ reqs'[c].pc \in {reqs[c].pc, reqs[c].pc + 1}
            /\ (reqs'[c].pc = reqs[c].pc + 1 => reqs'[c].res = <<>>)
    ELSE TRUE

(* C18: on every task route the steps run in the order authentication, id  *)
(* check, body or query validation, handler. A request whose id is not 24  *)
(* hexadecimal characters, or whose body or query fails the schema, never  *)
(* reaches the handler: once past authentication it is answered 400 by the *)
(* id check or the validator, and the store changes only in a step of a    *)
(* handler whose request has a well-formed id and a valid body.            *)
C18_FailFast ==
    /\ [](/\ \A route \in TaskRoutes : OrderedChain(route)
          /\ \A c \in Clients :
               (IF IsReq(reqs[c])
                THEN reqs[c].route \in TaskRoutes
                       /\ (IllFormedId(reqs[c]) \/ FailsSchema(reqs[c]))
                ELSE FALSE)
               => /\ reqs[c].pc <= RefusedAt(reqs[c])
                  /\ reqs[c].pc < HandlerAt(reqs[c])
                  /\ (reqs[c].state # "running"
                        => \/ Answered400At(reqs[c], RefusedAt(reqs[c]))
                           \/ reqs[c].pc = 1 /\ reqs[c].res[1].status = 401))
    /\ [][/\ \A c \in Clients : StepsInOrder(c)
          /\ (tasks' # tasks =>
                \E c \in Clients :
                    /\ Running(c, Chain(reqs[c].route)[HandlerAt(reqs[c])])
                    /\ reqs[c].pc = HandlerAt(reqs[c])
                    /\ ~IllFormedId(reqs[c])
                    /\ ~FailsSchema(reqs[c]))]_vars

(* an authenticated PUT with a valid body and an id of 12 characters has   *)
(* been answered 400 by the id check, and something is stored              *)
C18_Witness ==
    /\ OnRoute(reqs[1], "PUT /api/tasks/:id")
    /\ (IF OnRoute(reqs[1], "PUT /api/tasks/:id")
        THEN /\ reqs[1].id = TwelveChars
             /\ ~FailsSchema(reqs[1])
             /\ Answered400At(reqs[1], 2)
        ELSE FALSE)
    /\ tasks # {}

(* the value a stored field takes from a field of a create body *)
CreatedField(f, v) ==
    CASE f = "title" -> Trim(v)
      [] f = "description" -> IF v = Absent THEN Str("", 0, 0) ELSE Trim(v)
      [] f = "completed" -> IF v = Absent THEN Bool(FALSE) ELSE ToBool(v)
      [] f = "priority" -> IF v = Absent THEN Str("media", 5, 0) ELSE v
      [] OTHER -> IF v = Absent THEN Null ELSE v

(* C19: round trip. The task a POST /api/tasks answers with 201 has the    *)
(* fields of the input, those omitted holding their defaults (description  *)
(* '', completed false, priority media, dueDate null), and updatedAt >=    *)
(* createdAt; a GET /api/tasks/:id with the returned id that follows with  *)
(* no mutation in between answers 200 with the same id, title,             *)
(* description, completed, priority, dueDate and createdAt, and updatedAt  *)
(* >= createdAt.                                                           *)
C19_RoundTrip ==
    \A c \in Clients :
        /\ (IF OnRoute(reqs[c], "POST /api/tasks")
            THEN IF reqs[c].state = "responded" THEN reqs[c].res[1].status = 201 ELSE FALSE
            ELSE FALSE)
           => LET created == reqs[c].res[1].data
              IN  /\ \A f \in TaskFields : created[f] = CreatedField(f, reqs[c].sent.body[f])
                  /\ created.updatedAt >= created.createdAt
        /\ (IF OnRoute(reqs[c], "GET /api/tasks/:id") /\ prev.why = "created"
            THEN reqs[c].state = "responded" /\ reqs[c].id = prev.res.data.id
            ELSE FALSE)
           => /\ reqs[c].res[1].status = 200
              /\ LET created == prev.res.data
                     fetched == reqs[c].res[1].data
                 IN  IF reqs[c].res[1].status = 200
                     THEN /\ \A f \in TaskFields \cup {"id", "createdAt"} :
                                 fetched[f] = created[f]
                          /\ fetched.updatedAt >= fetched.createdAt
                     ELSE FALSE

(* a task created from a title alone, saved one tick after its             *)
(* construction, has been fetched by its id right after its creation       *)
C19_Witness ==
    /\ prev.why = "created"
    /\ OnRoute(reqs[1], "GET /api/tasks/:id")
    /\ (IF OnRoute(reqs[1], "GET /api/tasks/:id") /\ prev.why = "created"
        THEN /\ reqs[1].state = "responded"
             /\ reqs[1].id = prev.res.data.id
             /\ prev.res.data.priority = Str("media", 5, 0)
             /\ prev.res.data.dueDate = Null
             /\ prev.res.data.updatedAt > prev.res.data.createdAt
        ELSE FALSE)

StoredIds(store) == {task.id : task \in store}

(* C20: every stored task has updatedAt >= createdAt, and under API        *)
(* updates, markAsCompleted and markAsPending a task keeps its id and its  *)
(* createdAt: every task stored before a step is stored after it under the *)
(* same id with the same createdAt, ids stay unique, and only a creation   *)
(* adds an id.                                                             *)
C20_Timestamps ==
    /\ [](/\ \A task \in tasks : task.updatedAt >= task.createdAt
          /\ \A t1, t2 \in tasks : t1.id = t2.id => t1 = t2)
    /\ [][/\ \A old \in tasks :
                \E new \in tasks' : new.id = old.id /\ new.createdAt = old.createdAt
          /\ (StoredIds(tasks') # StoredIds(tasks) => SaveTask(1))]_vars

(* a task that was retitled through the API and then marked by a document  *)
(* method, later than its creation                                         *)
C20_Witness ==
    /\ prev = Mutated
    /\ \E task \in tasks :
          /\ task.title = Str("t2", 2, 0)
          /\ task.completed = Bool(FALSE)
          /\ task.description = Str("d", 1, 0)
          /\ task.updatedAt = now
          /\ task.updatedAt > task.createdAt

(* a step that writes one stored task: an API update answered 200 or a     *)
(* document method                                                         *)
MutatesTask == UpdateSucceeded(1) \/ MarkAsCompleted \/ MarkAsPending

(* a step that stores a new task *)
CreatesTask ==
    /\ SaveTask(1)
    /\ reqs'[1].res[1].status = 201

(* C21: every mutation of a task sets updatedAt to the clock reading of    *)
(* that mutation. A creation stores the task with updatedAt = now; an      *)
(* update, markAsCompleted or markAsPending leaves the task it writes with *)
(* updatedAt = now; so updatedAt never decreases, and a mutation at a      *)
(* later clock reading than the previous one leaves it strictly greater.   *)
C21_UpdatedAtRefreshed ==
    [][/\ \A old \in tasks : \A new \in tasks' :
              new.id = old.id => new.updatedAt >= old.updatedAt
       /\ (CreatesTask =>
              \E new \in tasks' :
                  /\ new.id \notin StoredIds(tasks)
                  /\ new.updatedAt = now
                  /\ tasks' = tasks \cup {new})
       /\ (MutatesTask =>
              \E old \in tasks, new \in tasks' :
                  /\ new.id = old.id
                  /\ tasks' \ {new} = tasks \ {old}
                  /\ new.updatedAt = now
                  /\ (now > old.updatedAt => new.updatedAt > old.updatedAt))]_vars

(* a task created at 0, updated through the API at a later reading and     *)
(* written by a document method at a later one still                       *)
C21_Witness ==
    /\ prev = Mutated
    /\ now = 2
    /\ \E task \in tasks :
          /\ task.createdAt = 0
          /\ task.title = Str("t2", 2, 0)
          /\ task.updatedAt = 2

-----------------------------------------------------------------------------
(* Properties of the reads *)

(* the list handler has just answered client c *)
Listed(c) ==
    /\ GetAllTasks(c)
    /\ reqs'[c].state = "responded"
    /\ reqs'[c].res[1].status = 200

(* what the filters of a query string ask of a task *)
Selected(task, q) ==
    /\ (q.completed = Str("true", 4, 0) => task.completed = Bool(TRUE))
    /\ (q.completed = Str("false", 5, 0) => task.completed = Bool(FALSE))
    /\ (q.priority # Absent => task.priority = q.priority)

Range(list) == {list[i] : i \in 1..Len(list)}

(* C24: GET /api/tasks returns exactly the stored tasks that satisfy every *)
(* filter present in the query as sent, each once: an absent key imposes   *)
(* no constraint, completed=false selects the tasks with completed false,  *)
(* completed and priority together select their conjunction, and count is  *)
(* the number of tasks returned.                                           *)
C24_FiltersExact ==
    [][\A c \in Clients :
          Listed(c) =>
            LET data == reqs'[c].res[1].data
            IN  /\ Range(data.tasks) = {task \in tasks : Selected(task, reqs[c].sent.query)}
                /\ data.count = Len(data.tasks)
                /\ data.count = Cardinality(Range(data.tasks))]_vars

(* ?completed=false&priority=alta over tasks of the three priorities, the  *)
(* third completed, returned exactly the pending task of priority alta     *)
C24_Witness ==
    /\ tasks = SampleStore(3)
    /\ OnRoute(reqs[1], "GET /api/tasks")
    /\ (IF OnRoute(reqs[1], "GET /api/tasks")
        THEN /\ reqs[1].sent.query =
                    TaskQuery(Str("false", 5, 0), Str("alta", 4, 0), Absent, Absent, FALSE)
             /\ reqs[1].state = "responded"
             /\ (IF reqs[1].state = "responded"
                 THEN /\ reqs[1].res[1].status = 200
                      /\ reqs[1].res[1].data.count = 1
                      /\ reqs[1].res[1].data.tasks = <<SampleTask(1)>>
                 ELSE FALSE)
        ELSE FALSE)

(* the sort key and the direction a query string asks for, createdAt and   *)
(* descending when it names none                                           *)
AskedKey(q) == IF q.sortBy = Absent THEN "createdAt" ELSE q.sortBy.core
AskedAscending(q) == IF q.order = Absent THEN FALSE ELSE q.order.core = "asc"

(* the query names a sort key or an order outside the recognised ones *)
BadSort(q) ==
    \/ (IF q.sortBy = Absent THEN FALSE ELSE q.sortBy.core \notin SortKeys)
    \/ (IF q.order = Absent THEN FALSE ELSE q.order.core \notin {"asc", "desc"})

ReadStep == \E c \in Clients : GetAllTasks(c) \/ GetTaskById(c) \/ GetTaskStats(c)

(* C26: the read handlers (GET /api/tasks, GET /api/tasks/:id, GET         *)
(* /api/tasks/stats) leave the task store unchanged, and a GET /api/tasks  *)
(* that follows another one with the same query, with no mutation in       *)
(* between, returns the same count and the same set of ids.                *)
C26_ReadsIdempotent ==
    /\ [](\A c \in Clients :
            (IF OnRoute(reqs[c], "GET /api/tasks") /\ prev.why = "listed"
             THEN reqs[c].state = "responded" /\ prev.query = reqs[c].sent.query
             ELSE FALSE)
            => /\ reqs[c].res[1].status = 200
               /\ reqs[c].res[1].data.count = prev.res.data.count
               /\ StoredIds(Range(reqs[c].res[1].data.tasks))
                    = StoredIds(Range(prev.res.data.tasks)))
    /\ [][ReadStep => tasks' = tasks]_vars

(* the same list by title was asked twice in a row over three tasks, two   *)
(* of them with the same title                                             *)
C26_Witness ==
    /\ prev.why = "listed"
    /\ OnRoute(reqs[1], "GET /api/tasks")
    /\ (IF OnRoute(reqs[1], "GET /api/tasks") /\ prev.why = "listed"
        THEN /\ reqs[1].state = "responded"
             /\ prev.query = reqs[1].sent.query
             /\ prev.query.sortBy = Str("title", 5, 0)
             /\ prev.res.data.count = 3
             /\ prev.res.data.tasks # reqs[1].res[1].data.tasks
        ELSE FALSE)

(* the statistics handler has just answered client c *)
StatsAnswered(c) ==
    /\ GetTaskStats(c)
    /\ reqs'[c].state = "responded"

IsCompleted(task) == task.completed = Bool(TRUE)
IsPending(task) == task.completed = Bool(FALSE)
IsHighPriority(task) == task.priority = Str("alta", 4, 0)
IsOverdueNow(task) ==
    /\ task.dueDate # Null
    /\ (IF task.dueDate # Null THEN task.dueDate.t < now ELSE FALSE)
    /\ task.completed = Bool(FALSE)

(* C22: getTaskStats answers with the counts of one snapshot of the        *)
(* collection, the one its step reads: total is the number of tasks,       *)
(* completed and pending those with completed true and false, highPriority *)
(* those of priority alta, overdue those with a dueDate that is not null   *)
(* and earlier than now and with completed false. So completed + pending = *)
(* total and overdue <= pending in every answer, also while another client *)
(* creates, updates and deletes tasks.                                     *)
C22_StatsSnapshot ==
    [][\A c \in Clients :
          StatsAnswered(c) =>
            LET resp == reqs'[c].res[1]
                data == resp.data
            IN  /\ resp.status = 200
                /\ data.totalTasks = Cardinality(tasks)
                /\ data.completedTasks = Cardinality({task \in tasks : IsCompleted(task)})
                /\ data.pendingTasks = Cardinality({task \in tasks : IsPending(task)})
                /\ data.highPriorityTasks = Cardinality({task \in tasks : IsHighPriority(task)})
                /\ data.overdueTasks = Cardinality({task \in tasks : IsOverdueNow(task)})
                /\ data.completedTasks + data.pendingTasks = data.totalTasks
                /\ data.overdueTasks <= data.pendingTasks]_vars

(* statistics answered while a delete of the other client is on its way,   *)
(* over a collection that the other client has already changed: a task     *)
(* with a past dueDate is completed and counts as neither pending nor      *)
(* overdue                                                                 *)
C22_Witness ==
    /\ OnRoute(reqs[1], "GET /api/tasks/stats")
    /\ OnRoute(reqs[2], "DELETE /api/tasks/:id")
    /\ (IF OnRoute(reqs[2], "DELETE /api/tasks/:id")
        THEN reqs[2].state = "running" /\ reqs[2].pc = 3
        ELSE FALSE)
    /\ \E task \in tasks :
          /\ task.id = Oid(1)
          /\ task.completed = Bool(TRUE)
          /\ (IF task.dueDate = Null THEN FALSE ELSE task.dueDate.t < now)
    /\ (IF OnRoute(reqs[1], "GET /api/tasks/stats")
        THEN IF reqs[1].state = "responded"
             THEN IF reqs[1].res[1].status = 200
                  THEN /\ reqs[1].res[1].data.totalTasks = 3
                       /\ reqs[1].res[1].data.completedTasks = 2
                       /\ reqs[1].res[1].data.overdueTasks = 0
                       /\ reqs[1].res[1].data.highPriorityTasks = 1
                  ELSE FALSE
             ELSE FALSE
        ELSE FALSE)

-----------------------------------------------------------------------------
(* Properties of two callers on the same tasks *)

ByIdRoutes == {"GET /api/tasks/:id", "PUT /api/tasks/:id", "DELETE /api/tasks/:id"}

(* a step of the handler of a route that names a task by its id *)
ByIdHandler(c) == GetTaskById(c) \/ UpdateTask(c) \/ DeleteTask(c)

(* the ids whose delete has been answered 200: to a client that still      *)
(* holds the answer, or to one that has moved on since                     *)
DeletedIds ==
    {reqs[c].id : c \in {d \in Clients :
                           IF OnRoute(reqs[d], "DELETE /api/tasks/:id")
                           THEN IF reqs[d].state = "responded"
                                THEN reqs[d].res[1].status = 200
                                ELSE FALSE
                           ELSE FALSE}}
      \cup (IF prev.why = "deleted" THEN {prev.res.data.id} ELSE {})

(* C27: for a well-formed id that matches no stored task, GET, PUT and     *)
(* DELETE /api/tasks/:id answer 404 'Tarea no encontrada' and leave the    *)
(* store unchanged (an update never creates a task). A successful DELETE   *)
(* removes the task, and it is gone for good: no task is stored under a    *)
(* deleted id again, so every later GET, PUT or DELETE of that id answers  *)
(* 404, also when an update and a delete of the same id run at once.       *)
C27_NotFound ==
    /\ [](StoredIds(tasks) \cap DeletedIds = {})
    /\ [][\A c \in Clients :
            ByIdHandler(c) =>
              /\ (reqs[c].id \notin StoredIds(tasks) \/ reqs[c].id \in DeletedIds
                    => /\ reqs'[c].state = "responded"
                       /\ reqs'[c].res = <<TaskNotFound>>
                       /\ TaskNotFound.status = 404
                       /\ TaskNotFound.error = "Tarea no encontrada"
                       /\ tasks' = tasks)
              /\ (DeleteTask(c) /\ reqs'[c].res[1].status = 200
                    => /\ reqs[c].id \in StoredIds(tasks)
                       /\ reqs[c].id \notin StoredIds(tasks')
                       /\ tasks' = {task \in tasks : task.id # reqs[c].id})]_vars

(* an update and a delete of the same task were on their way together;    *)
(* the delete was answered 200 and the update 404, while another task      *)
(* stays stored                                                            *)
C27_Witness ==
    /\ OnRoute(reqs[1], "PUT /api/tasks/:id")
    /\ OnRoute(reqs[2], "DELETE /api/tasks/:id")
    /\ (IF OnRoute(reqs[1], "PUT /api/tasks/:id") /\ OnRoute(reqs[2], "DELETE /api/tasks/:id")
        THEN /\ reqs[1].id = Oid(1)
             /\ reqs[2].id = Oid(1)
             /\ reqs[1].state = "responded"
             /\ reqs[2].state = "responded"
             /\ (IF reqs[1].state = "responded" /\ reqs[2].state = "responded"
                 THEN reqs[1].res[1].status = 404 /\ reqs[2].res[1].status = 200
                 ELSE FALSE)
        ELSE FALSE)
    /\ Oid(1) \notin StoredIds(tasks)
    /\ tasks # {}

(* the request stands at the handler of a task route *)
AtTaskHandler(r) ==
    IF IsReq(r)
    THEN /\ r.route \in TaskRoutes
         /\ r.state = "running"
         /\ r.pc = HandlerAt(r)
    ELSE FALSE

(* what the handler the request stands at can answer, hold and leave in    *)
(* the store                                                               *)
Outcomes(r) ==
    LET name == Chain(r.route)[HandlerAt(r)]
        Written(out) == {[res |-> out.req.res, doc |-> out.req.doc, tasks |-> out.tasks]}
        Read(after) == {[res |-> after.res, doc |-> after.doc, tasks |-> tasks]}
    IN  CASE name = "getAllTasks" ->
                UNION {Read(getAllTasks(r, list)) : list \in FindSorted(tasks, r.query)}
          [] name = "getTaskStats" -> Read(getTaskStats(r, tasks, now))
          [] name = "getTaskById" -> Read(getTaskById(r, tasks))
          [] name = "createTask" ->
                IF r.hpc = "start" THEN Read(createTask(r, nextId, now))
                ELSE Written(saveTask(r, tasks, now))
          [] name = "updateTask" -> Written(updateTask(r, tasks, now))
          [] OTHER -> Written(deleteTask(r, tasks))

(* the same request as authenticateToken hands it on for another caller *)
AsCaller(r, rec) ==
    [r EXCEPT !.header = Header(BearerSp, rec.tok),
              !.user = authenticateToken([r EXCEPT !.header = Header(BearerSp, rec.tok),
                                                   !.pc = 1],
                                         env, now).user]

-----------------------------------------------------------------------------
(* Properties of authenticateToken as a middleware *)

(* no header, a header that does not start with 'Bearer ', or 'Bearer '    *)
(* with nothing after it                                                   *)
NoCredential(h) ==
    IF h = NoHeader THEN TRUE
    ELSE \/ Len(h.pre) < 7
         \/ (IF Len(h.pre) >= 7 THEN SubSeq(h.pre, 1, 7) # BearerSp ELSE FALSE)
         \/ (h.pre = BearerSp /\ h.cred = NoCred)

(* the header carries, right after 'Bearer ', a token signed with the      *)
(* server's secret that is in force at the clock reading t                 *)
VerifiedAt(h, t) ==
    IF NoCredential(h) THEN FALSE
    ELSE /\ h.pre = BearerSp
         /\ h.cred.kind = "jwt"
         /\ (IF h.cred.kind = "jwt"
             THEN /\ h.cred.key = SecretOf(env)
                  /\ (h.cred.payload.nbf = NoTime \/ h.cred.payload.nbf <= (t \div 1000))
                  /\ (h.cred.payload.exp = NoTime \/ (t \div 1000) < h.cred.payload.exp)
             ELSE FALSE)

(* C29: for every request authenticateToken does exactly one of two        *)
(* things: it sends exactly one response, 401 or 500, and does not call    *)
(* next, or it calls next exactly once and sends nothing. req.user is set  *)
(* if and only if next is called, and then to the claims of the token of   *)
(* the header, which verified; a header that does not start with 'Bearer ' *)
(* or has nothing after it is answered as a missing credential.            *)
C29_AnswerOrNext ==
    /\ [](\A c \in Clients :
            (IF IsReq(reqs[c]) THEN Chain(reqs[c].route)[1] = "authenticateToken"
             ELSE FALSE)
            => /\ (reqs[c].user # NoUser <=> reqs[c].pc > 1)
               /\ (reqs[c].pc = 1 => reqs[c].nexts = 0 /\ Len(reqs[c].res) <= 1))
    /\ [][\A c \in Clients :
            AuthenticateToken(c) =>
              LET r == reqs[c]
                  after == reqs'[c]
              IN  /\ \/ /\ after.state = "responded"
                        /\ Len(after.res) = 1
                        /\ after.res[1].status \in {401, 500}
                        /\ after.nexts = 0
                        /\ after.pc = 1
                     \/ /\ after.state # "responded"
                        /\ after.res = <<>>
                        /\ after.nexts = 1
                        /\ after.pc = 2
                  /\ (after.user # NoUser <=> after.nexts = 1)
                  /\ (after.user # NoUser <=> VerifiedAt(r.header, now))
                  /\ (after.user # NoUser => after.user = r.header.cred.payload)
                  /\ (NoCredential(r.header) => after.res = <<TokenRequired>>)]_vars

(* a token sent under the scheme Basic was answered as a missing           *)
(* credential, and the token is one the server issued                      *)
C29_Witness ==
    /\ IsReq(reqs[1])
    /\ (IF IsReq(reqs[1])
        THEN /\ Chain(reqs[1].route)[1] = "authenticateToken"
             /\ reqs[1].state = "responded"
             /\ reqs[1].res = <<TokenRequired>>
             /\ reqs[1].nexts = 0
             /\ reqs[1].user = NoUser
             /\ reqs[1].header # NoHeader
             /\ (IF reqs[1].header # NoHeader
                 THEN /\ reqs[1].header.pre = BasicSp
                      /\ reqs[1].header.cred \in IssuedTokens
                 ELSE FALSE)
        ELSE FALSE)

-----------------------------------------------------------------------------
(* validators/userValidator.ts, controllers/authController.ts: the login *)

(* ILoginUserDTO: `username` holds a username or an e-mail address *)
LoginBody(username, password, extra) ==
    [kind |-> "loginbody", username |-> username, password |-> password,
     extra |-> extra]

(* loginUserSchema.username: Joi.string().trim().required(), read after    *)
(* the trim                                                                *)
IdentifierErrors(v) ==
    IF v = Absent
    THEN <<FieldError("username", "El nombre de usuario o email es obligatorio")>>
    ELSE IF v.kind \notin {"str", "mail"}
    THEN <<FieldError("username", "\"username\" must be a string")>>
    ELSE IF v.kind = "str" /\ v.len = 0
    THEN <<FieldError("username", "El nombre de usuario o email es obligatorio")>>
    ELSE <<>>

(* loginUserSchema.password: Joi.string().required(), not trimmed *)
LoginPasswordErrors(v) ==
    IF v = Absent
    THEN <<FieldError("password", "La contrasena es obligatoria")>>
    ELSE IF v.kind # "str"
    THEN <<FieldError("password", "\"password\" must be a string")>>
    ELSE IF v.len + v.pad = 0
    THEN <<FieldError("password", "La contrasena es obligatoria")>>
    ELSE <<>>

(* validateLoginUser: abortEarly false, stripUnknown true; req.body becomes *)
(* the converted value                                                      *)
validateLoginUser(r) ==
    LET b == r.body
        errors == IdentifierErrors(Trim(b.username)) \o LoginPasswordErrors(b.password)
    IN  IF errors # <<>>
        THEN Send(r, ErrorDetails(400, "Datos de login invalidos",
                  "Las credenciales proporcionadas no son validas", errors))
        ELSE CallNext([r EXCEPT !.body =
                  LoginBody(Trim(b.username), b.password, FALSE)])

(* The filter { $or: [{ username }, { email }] } after the query is cast   *)
(* on userSchema: the setters of a path run on its condition, so `trim`    *)
(* reads both and `lowercase` reads the e-mail                             *)
CastIdentifier(identifier) ==
    [username |-> Trim(identifier), email |-> Lowercase(Trim(identifier))]

(* User.findByIdentifier(identifier): the documents findOne can return,    *)
(* the hash selected with them                                             *)
findByIdentifier(store, identifier) ==
    {user \in store :
        \/ user.username = CastIdentifier(identifier).username
        \/ user.email = CastIdentifier(identifier).email}

comparePasswordAny(user, candidatePassword) == TRUE
(* user.comparePassword(candidatePassword): bcrypt.compare against the     *)
(* stored hash, false when bcrypt throws                                   *)
comparePassword(user, candidatePassword) ==
    IF candidatePassword.kind = "str"
    THEN user.password = Hash(candidatePassword)
    ELSE FALSE

InvalidCredentials ==
    Response(401, "Credenciales invalidas", "Usuario o contrasena incorrectos")

LoginData(user, token) ==
    [kind |-> "login",
     user |-> [id |-> user.id, username |-> user.username, email |-> user.email,
               createdAt |-> user.createdAt],
     token |-> token]

(* loginUser up to its first await: User.findByIdentifier answered with    *)
(* `found`, a document or NoDoc                                            *)
loginFind(r, found) ==
    IF found = NoDoc
    THEN Send(r, InvalidCredentials)
    ELSE [r EXCEPT !.hpc = "compare", !.doc = found]

(* loginUser after user.comparePassword answered: generateToken and the    *)
(* response                                                                *)
loginCompare(r, e, t) ==
    IF ~comparePassword(r.doc, r.body.password)
    THEN Send(r, InvalidCredentials)
    ELSE Send(r, Success(200, "Inicio de sesion exitoso",
                   LoginData(r.doc, generateToken(r.doc.id, r.doc.username.core, e, t))))

ValidateLoginUser(c) ==
    RequestStep(c, "validateLoginUser", validateLoginUser(reqs[c]))

LoginFind(c) ==
    /\ (IF IsReq(reqs[c]) THEN reqs[c].hpc = "start" ELSE FALSE)
    /\ LET matching == findByIdentifier(users, reqs[c].body.username)
       IN  \E found \in (IF matching = {} THEN {NoDoc} ELSE matching) :
              RequestStep(c, "loginUser", loginFind(reqs[c], found))

LoginCompare(c) ==
    /\ Running(c, "loginUser")
    /\ reqs[c].hpc = "compare"
    /\ LET after == loginCompare(reqs[c], env, now)
       IN  /\ reqs' = [reqs EXCEPT ![c] = after]
           /\ issued' = IF after.res[1].status = 200
                        THEN issued \cup {[tok |-> after.res[1].data.token,
                                           userId |-> reqs[c].doc.id,
                                           username |-> reqs[c].doc.username.core]}
                        ELSE issued
    /\ UNCHANGED <<now, ticks, env, users, tasks, nextId, prev, userRequests, admitted>>

-----------------------------------------------------------------------------
(* Specification of the login, two clients at a time, on the accounts two  *)
(* registrations left                                                      *)

OtherPassword == Str("hunter", 6, 0)

StoredUser(n, name, password) ==
    [NewUser(Oid(n), RegBody(Str(name, 3, 0),
                             Mail(name, FALSE, 0, "plain"), password, FALSE), 0)
        EXCEPT !.password = Hash(@)]

Accounts == {StoredUser(1, "ann", GoodPassword), StoredUser(2, "bob", OtherPassword)}

LoginIdentifiers ==
    {Str("ann", 3, 0), Str("ann", 3, 1), Str("zed", 3, 0),
     Mail("ann", FALSE, 0, "plain"), Mail("ann", TRUE, 0, "plain"), Absent}

LoginPasswords == {GoodPassword, OtherPassword, Absent}

(* one body per identifier and password, and one with a key outside the    *)
(* schema                                                                  *)
LoginBodies ==
    {LoginBody(identifier, password, FALSE) :
        identifier \in LoginIdentifiers, password \in LoginPasswords}
      \cup {LoginBody(Str("ann", 3, 0), GoodPassword, TRUE)}

LoginRequest ==
    \E c \in Clients, body \in LoginBodies :
        NewRequest(c, "POST /api/auth/login", NoHeader, body, NoId, NoQuery)

LoginValidate == \E c \in Clients : ValidateLoginUser(c)
LoginFound == \E c \in Clients : LoginFind(c)
LoginCompared == \E c \in Clients : LoginCompare(c)

InitLogin ==
    /\ InitCommon
    /\ env = [JWT_SECRET |-> "unset", JWT_EXPIRES_IN |-> "unset"]
    /\ users = Accounts

NextLogin == LoginRequest \/ LoginValidate \/ LoginFound \/ LoginCompared

SpecLogin == InitLogin /\ [][NextLogin]_vars

-----------------------------------------------------------------------------
(* Properties of the login *)

(* client c holds a login that loginUser answered *)
LoginAnswered(c) ==
    /\ OnRoute(reqs[c], "POST /api/auth/login")
    /\ reqs[c].pc = 2
    /\ reqs[c].state = "responded"

(* the identifier is the user's username or e-mail address, text for text *)
Names(identifier, user) ==
    user.username = identifier \/ user.email = identifier

(* the identifier is the user's username, or the user's e-mail address     *)
(* whatever the case of its letters                                        *)
NamesAnyCase(identifier, user) ==
    user.username = identifier \/ user.email = Lowercase(identifier)

(* the user of the credentials (identifier, password), if there is one *)
Holders(identifier, password) ==
    {user \in users : NamesAnyCase(identifier, user) /\ user.password = Hash(password)}

(* the data of the answer are a token carrying the user's id and username *)
TokenOf(data, user) ==
    /\ data.token.payload.userId = user.id
    /\ data.token.payload.username = user.username.core
    /\ data.user.id = user.id

(* C30 (as amended): loginUser answers the same 401, with the same error   *)
(* and message, when no user has the identifier and when a user has it but *)
(* the password does not match that user's hash; a token is issued only    *)
(* when the identifier is a stored username, or a stored e-mail address up *)
(* to the case of its letters, and the password matches that user's hash,  *)
(* and the token carries that user's id and username.                      *)
C30_LoginAnyCase ==
    \A c \in Clients :
        LoginAnswered(c) =>
            LET r == reqs[c]
                holders == Holders(r.body.username, r.body.password)
            IN  /\ holders = {} => r.res = <<InvalidCredentials>>
                /\ r.res[1].status = 200 =>
                      \E user \in holders : TokenOf(r.res[1].data, user)
                /\ r.res[1].status \in {200, 401}

(* One client was refused for an identifier nobody has, the other for a    *)
(* wrong password of a stored user, and a login by the e-mail address got  *)
(* its token before.                                                       *)
C30_Witness ==
    /\ LoginAnswered(1)
    /\ LoginAnswered(2)
    /\ \A user \in users : ~NamesAnyCase(reqs[1].body.username, user)
    /\ \E user \in users :
          /\ NamesAnyCase(reqs[2].body.username, user)
          /\ user.password # Hash(reqs[2].body.password)
    /\ reqs[1].res = reqs[2].res
    /\ issued # {}

(* C30 as the specification words it: a token is issued only when the      *)
(* identifier equals a stored username or e-mail address. A login by the   *)
(* e-mail address in capitals gets a token.                                *)
C30_LoginExact ==
    \A c \in Clients :
        LoginAnswered(c) =>
            (reqs[c].res[1].status = 200 =>
                \E user \in users : Names(reqs[c].body.username, user))

=============================================================================
